---- MODULE Spec2Model ----
(***************************************************************************)
(* Model of the content-structure engine of h2o (web/main/models.py):      *)
(* the materialized-path content tree of a casebook (ContentNode rows      *)
(* addressed by their ordinals) and the casebook lifecycle.                *)
(*                                                                         *)
(* Rows are modelled as they are stored: a ContentNode row has no parent   *)
(* pointer, only its casebook and its ordinals; the in-memory tree         *)
(* (content_tree__children / content_tree__parent) is rebuilt by every     *)
(* operation with content_tree__load, as in the code.                      *)
(***************************************************************************)
EXTENDS Integers, Sequences, FiniteSets, TLC

VARIABLES
    nodes,      \* ContentNode rows: id -> row
    casebooks,  \* Casebook rows: id -> row
    edit_log,   \* CasebookEditLog rows, in creation order
    seq,        \* the id sequences: the next id of a casebook and of a node
    edits,      \* how many changes editors have made by hand
    result,     \* outcome of the last call: what the caller observes
    calls       \* calls in flight: request -> what it has read and not yet written

vars == <<nodes, casebooks, edit_log, seq, edits, result, calls>>

(***************************************************************************)
(* Bounds                                                                  *)
(***************************************************************************)
MaxOrd == 2          \* largest path component a caller passes
MaxLen == 2          \* longest path a caller passes

Comps == (0 - 1) .. MaxOrd
Paths == UNION {[1..k -> Comps] : k \in 0..MaxLen}

NoneId == 0 - 1      \* Python None where a node is expected
RootId == 0          \* the Casebook object at the root of a loaded tree

(***************************************************************************)
(* Python list helpers                                                     *)
(***************************************************************************)
Min(a, b) == IF a <= b THEN a ELSE b
Max(a, b) == IF a >= b THEN a ELSE b

SetMax(S) == CHOOSE x \in S : \A y \in S : y <= x

\* s[:k]
Take(s, k) == SubSeq(s, 1, Min(Max(k, 0), Len(s)))

\* s[:-1]
ButLast(s) == SubSeq(s, 1, Len(s) - 1)

\* s[-1]
Last(s) == s[Len(s)]

\* s[k:]
Drop(s, k) == SubSeq(s, Min(k, Len(s)) + 1, Len(s))

\* list.remove(x): removes the first element equal to x
ListRemove(s, x) ==
    LET i == CHOOSE j \in 1..Len(s) : s[j] = x /\ \A k \in 1..(j - 1) : s[k] # x
    IN SubSeq(s, 1, i - 1) \o SubSeq(s, i + 1, Len(s))

\* list.insert taking the 1-based ordinal as the index
ListInsert_offbyone(s, idx, x) ==
    LET j == IF idx + 1 < 0 THEN Max(Len(s) + idx + 1, 0) ELSE Min(idx + 1, Len(s))
    IN SubSeq(s, 1, j) \o <<x>> \o SubSeq(s, j + 1, Len(s))

\* list.insert(idx, x): a negative idx counts from the end, and idx is clamped
ListInsert(s, idx, x) ==
    LET j == IF idx < 0 THEN Max(Len(s) + idx, 0) ELSE Min(idx, Len(s))
    IN SubSeq(s, 1, j) \o <<x>> \o SubSeq(s, j + 1, Len(s))

\* os.path.commonprefix((a, b)) on two lists
commonprefix(a, b) ==
    LET K == {k \in 0..Min(Len(a), Len(b)) : \A i \in 1..k : a[i] = b[i]}
    IN SubSeq(a, 1, SetMax(K))

\* ORDER BY ordinals: PostgreSQL compares arrays element by element, a prefix first
LexLess(a, b) ==
    LET n == Len(commonprefix(a, b))
    IN IF n = Len(a) THEN n < Len(b)
       ELSE IF n = Len(b) THEN FALSE
       ELSE a[n + 1] < b[n + 1]

\* The orders in which a query ordered by ordinals can return the rows S
\* (rows with equal ordinals come in any order)
RECURSIVE OrderedBy(_, _)
OrderedBy(ns, S) ==
    IF S = {} THEN {<<>>}
    ELSE LET M == {x \in S : \A y \in S : ~LexLess(ns[y].ordinals, ns[x].ordinals)}
         IN UNION {{<<x>> \o rest : rest \in OrderedBy(ns, S \ {x})} : x \in M}

(***************************************************************************)
(* ContentNode / Casebook properties                                       *)
(***************************************************************************)
\* "return self.resource_id is not None"
is_resource(row) == row.resource_id # NoneId

is_legacy_casebook_node(row) == row.ordinals = <<>>

content_tree__is_descendant_of(ns, n, p) ==
    Take(ns[n].ordinals, Len(ns[p].ordinals)) = ns[p].ordinals

\* Casebook.contents: the rows whose casebook is c
CasebookContents(ns, c) == {n \in DOMAIN ns : ns[n].casebook = c}

\* ContentNode.contents: same casebook, ordinals starting with self's, not self
NodeContents(ns, s) ==
    {n \in DOMAIN ns : /\ ns[n].casebook = ns[s].casebook
                       /\ Take(ns[n].ordinals, Len(ns[s].ordinals)) = ns[s].ordinals
                       /\ n # s}

\* ContentNode.objects.get(ordinals=..., casebook_id=...): the matching rows
NodesAt(ns, c, path) == {n \in DOMAIN ns : ns[n].casebook = c /\ ns[n].ordinals = path}

(***************************************************************************)
(* content_tree__load                                                      *)
(* A loaded tree is [ch |-> children lists, par |-> parents], over RootId  *)
(* and node ids.                                                           *)
(***************************************************************************)
EmptyTree(ns) ==
    [ch  |-> [n \in DOMAIN ns \cup {RootId} |-> <<>>],
     par |-> [n \in DOMAIN ns \cup {RootId} |-> NoneId]]

\* Casebook.content_tree__load: loop over the rows in order; map is
\* ordinal_to_node_map
RECURSIVE CasebookLoadLoop(_, _, _, _, _)
CasebookLoadLoop(ns, order, i, map, t) ==
    IF i > Len(order) THEN t
    ELSE LET n    == order[i]
             ords == ns[n].ordinals
             map1 == (ords :> n) @@ map
             K    == {k \in 1..(Len(ords) - 1) : Take(ords, k) \in DOMAIN map1}
             p    == IF K = {} THEN RootId ELSE map1[Take(ords, SetMax(K))]
             t1   == [ch  |-> [t.ch EXCEPT ![n] = <<>>, ![p] = Append(t.ch[p], n)],
                      par |-> [t.par EXCEPT ![n] = p]]
         IN CasebookLoadLoop(ns, order, i + 1, map1, t1)

\* a load that makes every row a top-level child
CasebookLoad_flat(ns, order) ==
    [ch  |-> [EmptyTree(ns).ch EXCEPT ![RootId] = order],
     par |-> [n \in DOMAIN ns \cup {RootId} |-> IF n = RootId THEN NoneId ELSE RootId]]

CasebookLoad(ns, order) == CasebookLoadLoop(ns, order, 1, <<>>, EmptyTree(ns))

\* the inner "while not node.is_descendant_of(parent): parent = parents.pop()"
RECURSIVE PopParents(_, _, _, _)
PopParents(ns, n, parents, parent) ==
    IF parent = NoneId \/ content_tree__is_descendant_of(ns, n, parent)
    THEN [parents |-> parents, parent |-> parent]
    ELSE PopParents(ns, n, ButLast(parents), parents[Len(parents)])

\* MaterializedPathTreeMixin.content_tree__load: order is [self] + contents
RECURSIVE NodeLoadLoop(_, _, _, _, _, _, _)
NodeLoadLoop(ns, order, i, parents, parent, last_child, t) ==
    IF i > Len(order) THEN t
    ELSE LET n  == order[i]
             st == IF last_child # NoneId /\ content_tree__is_descendant_of(ns, n, last_child)
                   THEN [parents |-> Append(parents, parent), parent |-> last_child]
                   ELSE IF parent # NoneId
                        THEN PopParents(ns, n, parents, parent)
                        ELSE [parents |-> parents, parent |-> parent]
             p  == st.parent
             t1 == [ch  |-> IF p # NoneId
                            THEN [t.ch EXCEPT ![n] = <<>>, ![p] = Append(t.ch[p], n)]
                            ELSE [t.ch EXCEPT ![n] = <<>>],
                    par |-> [t.par EXCEPT ![n] = p]]
         IN NodeLoadLoop(ns, order, i + 1, st.parents, p, n, t1)

NodeLoad(ns, self, order) ==
    NodeLoadLoop(ns, <<self>> \o order, 1, <<>>, NoneId, NoneId, EmptyTree(ns))

\* The trees a load of root can produce (root = RootId loads casebook c)
LoadedTrees(ns, c, root) ==
    IF root = RootId
    THEN {CasebookLoad(ns, o) : o \in OrderedBy(ns, CasebookContents(ns, c))}
    ELSE {NodeLoad(ns, root, o) : o \in OrderedBy(ns, NodeContents(ns, root))}

(***************************************************************************)
(* content_tree__get_descendant                                            *)
(***************************************************************************)
IndexErr == 0 - 2    \* the walk raised IndexError

\* "node = node.content_tree__children[ordinals.pop(0) - 1]" until ordinals is
\* empty; a Python index below 0 counts from the end of the list
RECURSIVE WalkChildren(_, _, _)
WalkChildren(ch, n, path) ==
    IF path = <<>> THEN n
    ELSE LET idx == path[1] - 1
             L   == Len(ch[n])
         IN IF idx >= L \/ idx < 0 - L THEN IndexErr
            ELSE WalkChildren(ch, ch[n][(IF idx < 0 THEN L + idx ELSE idx) + 1], Tail(path))

\* root_ords is the ordinals of the node the walk starts from ([] for a Casebook,
\* whose override walks the whole path)
content_tree__get_descendant(ch, root, root_ords, path) ==
    WalkChildren(ch, root, Drop(path, Len(root_ords)))

(***************************************************************************)
(* content_tree__update_ordinals / content_tree__store                     *)
(***************************************************************************)
\* The loop over kids = the children of one node, from index i on.  top is TRUE
\* for Casebook.content_tree__update_ordinals, whose test of the display
\* ordinals looks at the last component only.  st = [ns |-> rows as updated in
\* memory, out |-> the yielded nodes].
RECURSIVE UpdateLoop(_, _, _, _, _, _, _, _)
UpdateLoop(ch, kids, i, pords, pdisp, cur, top, st) ==
    IF i > Len(kids) THEN st
    ELSE LET n       == kids[i]
             row     == st.ns[n]
             correct == pords \o <<i>>
             cur1    == IF row.does_display_ordinals THEN cur + 1 ELSE cur
             disp    == pdisp \o <<cur1>>
             stale   == \/ row.ordinals # correct
                        \/ row.display_ordinals = <<>>
                        \/ IF top
                           THEN row.display_ordinals[Len(row.display_ordinals)] # cur1
                           ELSE row.display_ordinals # disp
             st1     == IF stale
                        THEN [ns  |-> [st.ns EXCEPT ![n].ordinals = correct,
                                                    ![n].display_ordinals = disp],
                              out |-> st.out \cup {n}]
                        ELSE st
             st2     == IF ch[n] # <<>>
                        THEN UpdateLoop(ch, ch[n], 1, st1.ns[n].ordinals,
                                        st1.ns[n].display_ordinals, 0, FALSE, st1)
                        ELSE st1
         IN UpdateLoop(ch, kids, i + 1, pords, pdisp, cur1, top, st2)

\* a renumbering that stops at the children of root and never descends
content_tree__update_ordinals_shallow(ns, ch, root) ==
    LET flat == [n \in DOMAIN ch |-> IF n = root THEN ch[n] ELSE <<>>]
    IN IF root = RootId
       THEN UpdateLoop(flat, flat[RootId], 1, <<>>, <<>>, 0, TRUE, [ns |-> ns, out |-> {}])
       ELSE UpdateLoop(flat, flat[root], 1, ns[root].ordinals, ns[root].display_ordinals,
                       0, FALSE, [ns |-> ns, out |-> {}])

content_tree__update_ordinals(ns, ch, root) ==
    IF root = RootId
    THEN UpdateLoop(ch, ch[RootId], 1, <<>>, <<>>, 0, TRUE, [ns |-> ns, out |-> {}])
    ELSE UpdateLoop(ch, ch[root], 1, ns[root].ordinals, ns[root].display_ordinals, 0,
                    FALSE, [ns |-> ns, out |-> {}])

\* content_tree__store: bulk_update of the yielded rows (and of self for a node).
\* The result is the rows as stored afterwards.
content_tree__store(ns, ch, root) == content_tree__update_ordinals(ns, ch, root).ns

\* a store that hands only the yielded rows to bulk_update
StoreUpdates_noself(root, out) == out

\* content_tree__store: the rows handed to bulk_update, which writes each of
\* them: the rows update_ordinals yielded and, for a node, "[self] +"
StoreUpdates(root, out) == IF root = RootId THEN out ELSE {root} \cup out

(***************************************************************************)
(* content_tree__move_to                                                   *)
(* An outcome is [err |-> "" or the exception, ns |-> the rows as stored   *)
(* afterwards, ordinals |-> self.ordinals after a call that returned].     *)
(***************************************************************************)
Raise(ns, e) == [err |-> e, ns |-> ns, ordinals |-> <<>>]

\* "self.ordinals = moved_node.ordinals", wrongly echoing the caller's path
SelfOrdinals_echo(ns2, moved_node, new_ordinals) == new_ordinals

\* "self.ordinals = moved_node.ordinals": what the caller reads after the call
SelfOrdinals(ns2, moved_node, new_ordinals) == ns2[moved_node].ordinals

\* the tail of content_tree__move_to, on the tree t loaded from root (the common
\* parent)
MoveInTree(ns, s, new_ordinals, root, t) ==
    LET old_ordinals == ns[s].ordinals
        root_ords    == IF root = RootId THEN <<>> ELSE ns[root].ordinals
        new_parent   == content_tree__get_descendant(t.ch, root, root_ords, ButLast(new_ordinals))
        moved_node   == content_tree__get_descendant(t.ch, root, root_ords, old_ordinals)
    IN IF new_parent = IndexErr
       THEN Raise(ns, "Invalid new ordinals; parent does not exist")
       ELSE IF new_parent # RootId /\ is_resource(ns[new_parent])
       THEN Raise(ns, "Cannot add descendant of Resource")
       ELSE IF moved_node = IndexErr
       THEN Raise(ns, "IndexError")
       ELSE IF moved_node # s
       THEN Raise(ns, "Unexpected element found at ordinal")
       ELSE LET ch1 == [t.ch EXCEPT ![t.par[moved_node]] = ListRemove(@, moved_node)]
                ch2 == [ch1 EXCEPT ![new_parent] =
                            ListInsert(@, new_ordinals[Len(new_ordinals)] - 1, moved_node)]
                ns2 == content_tree__store(ns, ch2, root)
            IN [err |-> "", ns |-> ns2,
                ordinals |-> SelfOrdinals(ns2, moved_node, new_ordinals)]

\* the outcomes of ns[s].content_tree__move_to(new_ordinals)
content_tree__move_to(ns, s, new_ordinals) ==
    LET old_ordinals == ns[s].ordinals
        c            == ns[s].casebook
    IN IF new_ordinals = old_ordinals
       THEN {[err |-> "", ns |-> ns, ordinals |-> old_ordinals]}
       ELSE IF Len(new_ordinals) < 1
       THEN {Raise(ns, "Cannot move node to root")}
       ELSE IF is_legacy_casebook_node(ns[s])
       THEN {Raise(ns, "Cannot move legacy casebook node")}
       ELSE IF Take(new_ordinals, Len(old_ordinals)) = old_ordinals
       THEN {Raise(ns, "Cannot move a node inside itself")}
       ELSE LET common_prefix == commonprefix(old_ordinals, ButLast(new_ordinals))
                found == IF common_prefix # <<>> THEN NodesAt(ns, c, common_prefix)
                         ELSE {RootId}
            IN IF found = {} THEN {Raise(ns, "DoesNotExist")}
               ELSE IF Cardinality(found) > 1 THEN {Raise(ns, "MultipleObjectsReturned")}
               ELSE LET root == CHOOSE r \in found : TRUE
                    IN {MoveInTree(ns, s, new_ordinals, root, t) :
                            t \in LoadedTrees(ns, c, root)}

(***************************************************************************)
(* content_tree__repair, ContentNode.delete                                *)
(***************************************************************************)
\* the rows a repair of root (RootId: the casebook c itself) can leave stored
content_tree__repair(ns, c, root) ==
    {content_tree__store(ns, t.ch, root) : t \in LoadedTrees(ns, c, root)}

\* the outcomes of a repair of root: the rows as stored afterwards and the rows
\* it wrote
RepairWrites(ns, c, root) ==
    {LET st == content_tree__update_ordinals(ns, t.ch, root)
     IN [ns |-> st.ns, written |-> StoreUpdates(root, st.out)] :
        t \in LoadedTrees(ns, c, root)}

\* the outcomes of ns[s].delete()
ContentNodeDelete(ns, s) ==
    LET c                  == ns[s].casebook
        ordinals_of_parent == ButLast(ns[s].ordinals)
        found == IF ordinals_of_parent # <<>> THEN NodesAt(ns, c, ordinals_of_parent)
                 ELSE {RootId}
    IN IF found = {} THEN {Raise(ns, "DoesNotExist")}
       ELSE IF Cardinality(found) > 1 THEN {Raise(ns, "MultipleObjectsReturned")}
       ELSE LET parent == CHOOSE r \in found : TRUE
                gone   == {s} \cup (IF ns[s].resource_type = "Section"
                                    THEN NodeContents(ns, s) ELSE {})
                ns1    == [n \in DOMAIN ns \ gone |-> ns[n]]
            IN {[err |-> "", ns |-> ns2, ordinals |-> <<>>] :
                    ns2 \in content_tree__repair(ns1, c, parent)}

\* a body is named by its class and id
Body(row) == <<row.resource_type, row.resource_id>>

\* a delete that removes the body of every resource below the section
DeletedBodies_any(ns, s) ==
    IF ns[s].resource_type \in {"", "Section"}
    THEN {Body(ns[n]) : n \in {x \in NodeContents(ns, s) : ns[x].resource_id # NoneId}}
    ELSE IF ns[s].resource_type \in {"TextBlock", "Link"} THEN {Body(ns[s])}
    ELSE {}

\* the TextBlock and Link objects ns[s].delete() deletes:
\* _delete_related_links_and_text_blocks for a section, self.resource.delete()
\* for a TextBlock or Link node
DeletedBodies(ns, s) ==
    IF ns[s].resource_type \in {"", "Section"}
    THEN {Body(ns[n]) : n \in {x \in NodeContents(ns, s) :
                                  /\ ns[x].resource_id # NoneId
                                  /\ ns[x].resource_type \in {"Link", "TextBlock"}}}
    ELSE IF ns[s].resource_type \in {"TextBlock", "Link"} THEN {Body(ns[s])}
    ELSE {}

(***************************************************************************)
(* The stored state                                                        *)
(***************************************************************************)
PRIVATELY_EDITING == "Fresh"
NEWLY_CLONED == "Clone"
DRAFT == "Draft"
PUBLISHED == "Public"
ARCHIVED == "Archived"
REVISING == "Revising"
PREVIOUS_SAVE == "Previous"

LifeCycle == {PRIVATELY_EDITING, NEWLY_CLONED, DRAFT, PUBLISHED, ARCHIVED, REVISING,
              PREVIOUS_SAVE}

NoCasebook == 0      \* casebook = None / draft = None

\* A ContentNode row.  resource_type and resource_id name the body (a TextBlock,
\* Link or LegalDocument row; resource_id is NoneId for a section).  content is
\* resource.content, the content of that body, kept with every row that refers
\* to the body; annotations is the row's set of annotations.
NodeRow(c, ords, disp, shows, rtype, rid, prov) ==
    [casebook |-> c, ordinals |-> ords, display_ordinals |-> disp,
     does_display_ordinals |-> shows, resource_type |-> rtype, resource_id |-> rid,
     provenance |-> prov, content |-> 0, annotations |-> 0,
     is_instructional_material |-> FALSE]

CasebookRow(st, prov, collab) ==
    [state |-> st, draft |-> NoCasebook, provenance |-> prov, title |-> 0,
     subtitle |-> 0, description |-> 0, headnote |-> 0, collaborators |-> collab]

NoCall == [op |-> "", err |-> ""]

\* the requests the server handles at a time, and none of them in a call
Procs == {1, 2}
Idle == [op |-> "", upd |-> <<>>]
NoCalls == [p \in Procs |-> Idle]

(***************************************************************************)
(* The casebook lifecycle                                                  *)
(***************************************************************************)
\* the database an operation reads and the outcome it leaves: the error it
\* raised ("" when it returned) and the rows stored afterwards
Db(cbs, ns, log, sq) == [cbs |-> cbs, ns |-> ns, log |-> log, seq |-> sq]

Returns(db) == [err |-> "", cbs |-> db.cbs, ns |-> db.ns, log |-> db.log, seq |-> db.seq]

Raises(db, e) == [err |-> e, cbs |-> db.cbs, ns |-> db.ns, log |-> db.log, seq |-> db.seq]

\* the pairs (current, target) the table of can_transition_to marks True
transition_options ==
    {<<PRIVATELY_EDITING, PUBLISHED>>, <<PRIVATELY_EDITING, ARCHIVED>>,
     <<PRIVATELY_EDITING, PREVIOUS_SAVE>>,
     <<NEWLY_CLONED, PRIVATELY_EDITING>>, <<NEWLY_CLONED, PUBLISHED>>,
     <<NEWLY_CLONED, ARCHIVED>>,
     <<DRAFT, PUBLISHED>>, <<DRAFT, PREVIOUS_SAVE>>,
     <<PUBLISHED, PRIVATELY_EDITING>>, <<PUBLISHED, REVISING>>,
     <<REVISING, PRIVATELY_EDITING>>, <<REVISING, PUBLISHED>>,
     <<ARCHIVED, PRIVATELY_EDITING>>}

can_transition_to(row, target) ==
    IF row.state = target THEN FALSE ELSE <<row.state, target>> \in transition_options

is_public(row) == row.state \in {PUBLISHED, REVISING}

has_draft(row) == row.draft # NoCasebook

is_draft(row) == row.state = DRAFT

in_edit_state(row) == row.state \in {NEWLY_CLONED, DRAFT, PRIVATELY_EDITING}

can_depublish(row) == is_public(row) /\ can_transition_to(row, PRIVATELY_EDITING)

\* a CasebookEditLog row
EditLogEntry(c, n, change) == [casebook |-> c, content |-> n, change |-> change]

SwappedAttrs_noheadnote == {"title", "subtitle", "description"}

\* the attributes merge_draft swaps between the draft and its parent
SwappedAttrs == {"title", "subtitle", "description", "headnote"}

LogsAdded_everynode(row) == TRUE

\* merge_draft logs a node without provenance as Added when it is a resource
LogsAdded(row) == is_resource(row)

\* merge_draft, the loop over to_publish; st = [ns, swap_map, edits]
RECURSIVE PublishLoop(_, _, _, _)
PublishLoop(order, i, parent, st) ==
    IF i > Len(order) THEN st
    ELSE LET cn  == order[i]
             row == st.ns[cn]
             st1 == IF row.provenance # <<>>
                    THEN [st EXCEPT !.ns[cn].provenance = ButLast(@),
                                    !.swap_map = (Last(row.provenance) :> cn) @@ @]
                    ELSE IF LogsAdded(row)
                    THEN [st EXCEPT !.edits = Append(@, EditLogEntry(parent, cn, "Added"))]
                    ELSE st
         IN PublishLoop(order, i + 1, parent, [st1 EXCEPT !.ns[cn].casebook = parent])

\* merge_draft, the loop over to_retire
RECURSIVE RetireLoop(_, _, _, _, _)
RetireLoop(order, i, parent, draft, st) ==
    IF i > Len(order) THEN st
    ELSE LET cn  == order[i]
             row == st.ns[cn]
             st1 ==
               IF cn \in DOMAIN st.swap_map
               THEN LET original == st.swap_map[cn]
                        orow     == st.ns[original]
                        edited   == IF is_resource(orow) /\ orow.content # row.content
                                    THEN <<EditLogEntry(parent, original, "Edited")>>
                                    ELSE <<>>
                        annotated == IF is_resource(orow)
                                        /\ orow.annotations # row.annotations
                                     THEN <<EditLogEntry(parent, original, "Annotated")>>
                                     ELSE <<>>
                    IN [st EXCEPT !.ns[cn].provenance = Append(@, original),
                                  !.swap_map = [k \in DOMAIN @ \ {cn} |-> @[k]],
                                  !.edits = @ \o edited \o annotated]
               ELSE [st EXCEPT !.edits = Append(@, EditLogEntry(parent, cn, "Removed"))]
         IN RetireLoop(order, i + 1, parent, draft,
                       [st1 EXCEPT !.ns[cn].casebook = draft])

\* draft.draft_of: the casebooks whose draft reference is d (the reference is
\* unique, so there is at most one)
draft_of(cbs, d) == {p \in DOMAIN cbs : cbs[p].draft = d}

\* the outcomes of casebook d's merge_draft()
merge_draft(db, d) ==
    LET parents == draft_of(db.cbs, d)
    IN IF ~is_draft(db.cbs[d]) THEN {Raises(db, "Only draft casebooks may be merged")}
       ELSE IF parents = {} THEN {Raises(db, "RelatedObjectDoesNotExist")}
       ELSE LET parent == CHOOSE p \in parents : TRUE
                drow   == db.cbs[d]
                prow   == db.cbs[parent]
                drow2  == [a \in DOMAIN drow |->
                              IF a \in SwappedAttrs THEN prow[a]
                              ELSE IF a = "state" THEN PREVIOUS_SAVE
                              ELSE IF a = "draft" THEN NoCasebook
                              ELSE drow[a]]
                prow2  == [a \in DOMAIN prow |->
                              IF a \in SwappedAttrs THEN drow[a]
                              ELSE IF a = "state" THEN PUBLISHED
                              ELSE IF a = "draft" THEN NoCasebook
                              ELSE prow[a]]
                \* draft.save() then parent.save(): the parent's row is written last
                cbs2   == [c \in DOMAIN db.cbs |->
                              IF c = parent THEN prow2
                              ELSE IF c = d THEN drow2 ELSE db.cbs[c]]
            IN {LET st1 == PublishLoop(to_publish, 1, parent,
                                       [ns |-> db.ns, swap_map |-> <<>>, edits |-> <<>>])
                    st2 == RetireLoop(to_retire, 1, parent, d, st1)
                IN [err |-> "", cbs |-> cbs2, ns |-> st2.ns,
                    log |-> db.log \o st2.edits, seq |-> db.seq] :
                  to_publish \in OrderedBy(db.ns, CasebookContents(db.ns, d)),
                  to_retire \in OrderedBy(db.ns, CasebookContents(db.ns, parent))}

\* a clone that records its source twice
CloneProvenance_twice(provenance, id) == provenance \o <<id, id>>

CloneProvenance_unchanged(provenance, id) == provenance

\* clone / collect_cloning_nodes: provenance=old.provenance + [old.id]
CloneProvenance(provenance, id) == Append(provenance, id)

CloneCollaborators_none(row, draft_mode, current_user) == {}

\* clone: a draft gets the collaborators of the original, any other clone the
\* current user (NoneId: no current_user given)
CloneCollaborators(row, draft_mode, current_user) ==
    IF draft_mode THEN row.collaborators
    ELSE IF current_user # NoneId THEN {current_user} ELSE {}

ClonesBody_never(row) == FALSE

\* collect_cloning_nodes: "if old_content_node.resource_id and
\* old_content_node.resource_type not in {"Case", "LegalDocument"}", the nodes
\* whose body is cloned with them
ClonesBody(row) ==
    row.resource_id # NoneId /\ row.resource_type \notin {"Case", "LegalDocument"}

\* save_and_parent_cloned_resources: the cloned bodies are created table by
\* table in the order of their nodes; the id the clone of order[i]'s body gets
ClonedResourceId(ns, sq, order, i) ==
    LET T == ns[order[i]].resource_type
        earlier == {j \in 1..(i - 1) :
                       ClonesBody(ns[order[j]]) /\ ns[order[j]].resource_type = T}
    IN (IF T = "Link" THEN sq.link ELSE sq.textblock) + Cardinality(earlier)

\* the sequences after the bodies and the nodes of order have been created
SeqAfterClone(ns, sq, order) ==
    LET made(T) == Cardinality({j \in 1..Len(order) :
                       ClonesBody(ns[order[j]]) /\ ns[order[j]].resource_type = T})
    IN [sq EXCEPT !.node = @ + Len(order),
                  !.textblock = @ + made("TextBlock"),
                  !.link = @ + made("Link")]

\* an offset that ignores the rows already in the target
AppendOffset_one(ns, target) == 1

\* clone_nodes with append: "offset = (Max(ordinals) or [0])[0] + 1" over the
\* rows of the target casebook
AppendOffset(ns, target) ==
    LET firsts == {ns[n].ordinals[1] :
                      n \in {m \in CasebookContents(ns, target) : ns[m].ordinals # <<>>}}
    IN SetMax(firsts \cup {0}) + 1

\* collect_cloning_nodes and the creation of the rows: the row created for
\* order[i], its top ordinal moved by offset (0 when not appending)
ClonedRow(ns, sq, order, i, new_casebook, offset) ==
    LET old == ns[order[i]]
    IN [old EXCEPT !.casebook = new_casebook,
                   !.provenance = CloneProvenance(old.provenance, order[i]),
                   !.resource_id = IF ClonesBody(old)
                                   THEN ClonedResourceId(ns, sq, order, i) ELSE @,
                   !.ordinals = IF offset = 0 THEN @
                                ELSE <<@[1] + offset>> \o Tail(@)]

\* the outcomes of casebook new_casebook's clone_nodes(order, append): one new
\* row per node of order, ids in creation order; [err, ns, seq]
clone_nodes(ns, sq, order, new_casebook, append) ==
    IF append /\ \E i \in 1..Len(order) : ns[order[i]].ordinals = <<>>
    THEN {[err |-> "IndexError", ns |-> ns, seq |-> sq]}
    ELSE LET offset == IF append THEN AppendOffset(ns, new_casebook) ELSE 0
             created == [id \in sq.node..(sq.node + Len(order) - 1) |->
                            ClonedRow(ns, sq, order, id - sq.node + 1, new_casebook, offset)]
             ns1     == ns @@ created
             sq1     == SeqAfterClone(ns, sq, order)
         IN IF append
            THEN {[err |-> "", ns |-> ns2, seq |-> sq1] :
                      ns2 \in content_tree__repair(ns1, new_casebook, RootId)}
            ELSE {[err |-> "", ns |-> ns1, seq |-> sq1]}

\* the outcomes of casebook c's clone(current_user, draft_mode)
clone(db, c, current_user, draft_mode) ==
    LET old == db.cbs[c]
        id  == db.seq.casebook
        cloned_casebook ==
            [old EXCEPT !.provenance = CloneProvenance(old.provenance, c),
                        !.draft = NoCasebook,
                        !.state = IF draft_mode THEN DRAFT ELSE NEWLY_CLONED,
                        !.collaborators = CloneCollaborators(old, draft_mode, current_user)]
        cbs1 == db.cbs @@ (id :> cloned_casebook)
        cbs2 == IF draft_mode THEN [cbs1 EXCEPT ![c].draft = id] ELSE cbs1
        contents == CasebookContents(db.ns, c)
        sq1 == [db.seq EXCEPT !.casebook = id + 1]
    IN UNION {{[err |-> "", cbs |-> cbs2, ns |-> o.ns, log |-> db.log, seq |-> o.seq] :
                  o \in clone_nodes(db.ns, sq1, order, id, FALSE)} :
              order \in OrderedBy(db.ns, contents)}

TransitionChecked_never(row, target_state) == TRUE

\* transition_to: "if not self.can_transition_to(target_state): raise"
TransitionChecked(row, target_state) == can_transition_to(row, target_state)

\* the outcomes of casebook c's transition_to(target_state)
transition_to(db, c, target_state) ==
    LET row == db.cbs[c]
        set == {Returns([db EXCEPT !.cbs[c].state = target_state])}
    IN IF ~TransitionChecked(row, target_state)
       THEN {Raises(db, "Cannot transition to desired state")}
       ELSE IF target_state = PUBLISHED
       THEN IF has_draft(row) THEN merge_draft(db, row.draft)
            ELSE IF is_draft(row) THEN merge_draft(db, c)
            ELSE set
       ELSE set

\* the outcomes of casebook c's make_draft(): the transition is saved before the
\* clone is made
make_draft(db, c) ==
    UNION {IF o.err # "" THEN {o}
           ELSE clone(Db(o.cbs, o.ns, o.log, o.seq), c, NoneId, TRUE) :
             o \in transition_to(db, c, REVISING)}

archive(db, c) == {Returns([db EXCEPT !.cbs[c].state = ARCHIVED])}

unarchive(db, c) == {Returns([db EXCEPT !.cbs[c].state = PRIVATELY_EDITING])}

\* depublish assigns the enumeration member, not its value: the text save() sends
\* for the state column is longer than the column allows, so the save is refused
depublish(db, c) ==
    IF ~can_depublish(db.cbs[c]) THEN {Raises(db, "Cannot depublish this casebook")}
    ELSE {Raises(db, "DataError")}

(***************************************************************************)
(* The content tree of one casebook under move_to, delete and repair       *)
(***************************************************************************)
\* Casebook 1 holds s_1 [1], r_1_1 [1,1] (a text block that shows no ordinal),
\* s_1_2 [1,2] and s_2 [2]; node 5 is a legacy casebook node (no ordinals, no
\* casebook).
Init ==
    /\ nodes = (1 :> NodeRow(1, <<1>>, <<1>>, TRUE, "Section", NoneId, <<>>))
            @@ (2 :> NodeRow(1, <<1, 1>>, <<1, 0>>, FALSE, "TextBlock", 1, <<>>))
            @@ (3 :> NodeRow(1, <<1, 2>>, <<1, 1>>, TRUE, "Section", NoneId, <<>>))
            @@ (4 :> NodeRow(1, <<2>>, <<2>>, TRUE, "LegalDocument", 1, <<>>))
            @@ (5 :> NodeRow(NoCasebook, <<>>, <<>>, TRUE, "Section", NoneId, <<>>))
    /\ casebooks = (1 :> CasebookRow(PRIVATELY_EDITING, <<>>, {1}))
    /\ edit_log = <<>>
    /\ seq = [casebook |-> 2, node |-> 6, textblock |-> 2, link |-> 1]
    /\ edits = 0
    /\ result = NoCall
    /\ calls = NoCalls

\* node.content_tree__move_to(new_ordinals), node freshly read from the database
MoveTo(s, new_ordinals) ==
    /\ s \in DOMAIN nodes
    /\ \E o \in content_tree__move_to(nodes, s, new_ordinals) :
          /\ nodes' = o.ns
          /\ result' = [op |-> "move_to", err |-> o.err]
    /\ UNCHANGED <<casebooks, edit_log, seq, edits, calls>>

\* node.delete() for a node of a casebook
Delete(s) ==
    /\ s \in DOMAIN nodes
    /\ nodes[s].casebook # NoCasebook
    /\ \E o \in ContentNodeDelete(nodes, s) :
          /\ nodes' = o.ns
          /\ result' = [op |-> "delete", err |-> o.err]
    /\ UNCHANGED <<casebooks, edit_log, seq, edits, calls>>

\* casebook.content_tree__repair() (root = RootId) or node.content_tree__repair()
Repair(c, root) ==
    /\ c \in DOMAIN casebooks
    /\ root = RootId \/ (root \in DOMAIN nodes /\ nodes[root].casebook = c)
    /\ \E ns2 \in content_tree__repair(nodes, c, root) :
          /\ nodes' = ns2
          /\ result' = [op |-> "repair", err |-> ""]
    /\ UNCHANGED <<casebooks, edit_log, seq, edits, calls>>

Next ==
    \/ \E s \in DOMAIN nodes : \E p \in Paths : MoveTo(s, p)
    \/ \E s \in DOMAIN nodes : Delete(s)
    \/ \E c \in DOMAIN casebooks : \E r \in {RootId} \cup DOMAIN nodes : Repair(c, r)

Spec == Init /\ [][Next]_vars

(***************************************************************************)
(* The path invariant                                                      *)
(***************************************************************************)
\* the stored children of the node at path p: the rows one component longer
Siblings(ns, c, p) ==
    {n \in CasebookContents(ns, c) :
        Len(ns[n].ordinals) = Len(p) + 1 /\ ButLast(ns[n].ordinals) = p}

\* Every row of casebook c has a non-empty path, its parent's path is stored (or
\* it is at the top level), its last component is 1 + the number of its earlier
\* siblings, and no two rows share a path.
ValidTree(ns, c) ==
    /\ \A n \in CasebookContents(ns, c) :
          LET o == ns[n].ordinals
          IN /\ o # <<>>
             /\ Len(o) > 1 => NodesAt(ns, c, ButLast(o)) # {}
             /\ Last(o) = 1 + Cardinality({m \in Siblings(ns, c, ButLast(o)) :
                                              Last(ns[m].ordinals) < Last(o)})
    /\ \A n, m \in CasebookContents(ns, c) :
          n # m => ns[n].ordinals # ns[m].ordinals

\* The tree the rows of casebook c describe: the path invariant holds and the rows
\* stored under a node's path are under a section, never under a resource.
WellFormed(ns, c) ==
    /\ ValidTree(ns, c)
    /\ \A n \in CasebookContents(ns, c) :
          \A p \in NodesAt(ns, c, ButLast(ns[n].ordinals)) : ~is_resource(ns[p])

\* C1: after any sequence of move_to, delete and repair calls on a tree that
\* satisfied the path invariant, every stored node's ordinals are its parent's
\* ordinals followed by 1 + the number of its earlier siblings, and no two nodes
\* of the casebook have the same ordinals.
C1_PathInvariant == \A c \in DOMAIN casebooks : ValidTree(nodes, c)

\* a state a successful content_tree__move_to has produced
MoveReturned == result = [op |-> "move_to", err |-> ""]

\* C2: for a node that is one of n children of a parent P, move_to(P.path + [k])
\* with 1 <= k <= n succeeds, makes the node the k-th child of P, keeps the
\* relative order of the other children and stores the children's paths as
\* P.path + [1] .. P.path + [n].
C2_MoveAmongSiblings ==
    \A c \in DOMAIN casebooks : WellFormed(nodes, c) =>
        \A s \in CasebookContents(nodes, c) :
            LET P    == ButLast(nodes[s].ordinals)
                sibs == Siblings(nodes, c, P)
                n    == Cardinality(sibs)
            IN \A k \in 1..n :
                 \A o \in content_tree__move_to(nodes, s, P \o <<k>>) :
                    /\ o.err = ""
                    /\ DOMAIN o.ns = DOMAIN nodes
                    /\ o.ns[s].ordinals = P \o <<k>>
                    /\ Siblings(o.ns, c, P) = sibs
                    /\ {o.ns[m].ordinals : m \in sibs} = {P \o <<i>> : i \in 1..n}
                    /\ \A a, b \in sibs \ {s} :
                          Last(nodes[a].ordinals) < Last(nodes[b].ordinals)
                              => Last(o.ns[a].ordinals) < Last(o.ns[b].ordinals)

\* C2 witness: a move has produced a section at [1] with three children; moving
\* the third child to [1,1] there gives the order third, first, second.
C2_Witness ==
    /\ MoveReturned
    /\ WellFormed(nodes, 1)
    /\ \E a, b, d \in CasebookContents(nodes, 1) :
          /\ nodes[a].ordinals = <<1, 1>>
          /\ nodes[b].ordinals = <<1, 2>>
          /\ nodes[d].ordinals = <<1, 3>>
          /\ \E o \in content_tree__move_to(nodes, d, <<1, 1>>) :
                /\ o.ns[d].ordinals = <<1, 1>>
                /\ o.ns[a].ordinals = <<1, 2>>
                /\ o.ns[b].ordinals = <<1, 3>>

\* the node at path pp of casebook c (RootId for the empty path)
NodeAtPath(ns, c, pp) ==
    IF pp = <<>> THEN RootId ELSE CHOOSE p \in NodesAt(ns, c, pp) : TRUE

PathOf(ns, p) == IF p = RootId THEN <<>> ELSE ns[p].ordinals

\* C3: when a node is stored at new_ordinals[:-1] (or that path is the root), a
\* successful move_to(new_ordinals) leaves the moved node a child of that node,
\* wherever the detachment has shifted it, and self.ordinals is the path stored
\* for the moved node.
C3_ParentResolvedBeforeDetach ==
    \A c \in DOMAIN casebooks : WellFormed(nodes, c) =>
        \A s \in CasebookContents(nodes, c) : \A new \in Paths :
            (new # <<>> /\ (Len(new) = 1 \/ NodesAt(nodes, c, ButLast(new)) # {})) =>
                LET P == NodeAtPath(nodes, c, ButLast(new))
                IN \A o \in content_tree__move_to(nodes, s, new) :
                      o.err = "" =>
                          /\ ButLast(o.ns[s].ordinals) = PathOf(o.ns, P)
                          /\ o.ns[s].ordinals # <<>>
                          /\ o.ordinals = o.ns[s].ordinals

\* C3 witness: a move has produced a tree in which a node at [1] can move to
\* [2,1]: it becomes a child of the section formerly at [2], now at [1], and the
\* path stored and read back is [1,1], not [2,1].
C3_Witness ==
    /\ MoveReturned
    /\ WellFormed(nodes, 1)
    /\ \E s, P \in CasebookContents(nodes, 1) :
          /\ nodes[s].ordinals = <<1>>
          /\ nodes[P].ordinals = <<2>>
          /\ \E o \in content_tree__move_to(nodes, s, <<2, 1>>) :
                /\ o.err = ""
                /\ o.ns[P].ordinals = <<1>>
                /\ o.ns[s].ordinals = <<1, 1>>
                /\ o.ordinals = <<1, 1>>

\* the targets C4 lists as rejected, for node s of casebook c
MoveMustBeRejected(ns, s, new) ==
    LET c == ns[s].casebook
    IN \/ new = <<>>
       \/ ns[s].ordinals = <<>>
       \/ Take(new, Len(ns[s].ordinals)) = ns[s].ordinals
       \/ (Len(new) > 1 /\ NodesAt(ns, c, ButLast(new)) = {})
       \/ (Len(new) > 1 /\ \E p \in NodesAt(ns, c, ButLast(new)) : is_resource(ns[p]))

\* C4: move_to rejects an empty target, a fixed node, a target inside the node's
\* own subtree, a target whose parent does not exist and a target whose parent is
\* a resource, and a rejected call writes nothing.  (Stated for calls whose target
\* is not the node's current path.)
C4_RejectedBeforeWrite ==
    \A s \in DOMAIN nodes : \A new \in Paths :
        (/\ new # nodes[s].ordinals
         /\ nodes[s].casebook # NoCasebook => WellFormed(nodes, nodes[s].casebook)
         /\ MoveMustBeRejected(nodes, s, new)) =>
            \A o \in content_tree__move_to(nodes, s, new) :
                o.err # "" /\ o.ns = nodes

\* a target move_to has no valid place for: a component below 1, or a last
\* component greater than the number of children the new parent has once node s
\* is detached, plus 1
InvalidTarget(ns, s, new) ==
    \/ \E i \in 1..Len(new) : new[i] < 1
    \/ /\ new # <<>>
       /\ Last(new) > Cardinality(Siblings(ns, ns[s].casebook, ButLast(new)) \ {s}) + 1

\* C22: in every reachable state where the tree of a node's casebook is well
\* formed, content_tree__move_to raises an error for every target path, other
\* than the node's current one, that contains a component below 1 or whose last
\* component is greater than the number of children of the new parent (the node
\* detached) plus 1.
C22_InvalidTargetRejected ==
    \A s \in DOMAIN nodes : \A new \in Paths :
        (/\ nodes[s].casebook # NoCasebook
         /\ WellFormed(nodes, nodes[s].casebook)
         /\ new # nodes[s].ordinals
         /\ InvalidTarget(nodes, s, new)) =>
            \A o \in content_tree__move_to(nodes, s, new) : o.err # ""

\* the roots casebook c can be repaired from
RepairRoots(ns, c) == {RootId} \cup CasebookContents(ns, c)

\* the rows of written whose ordinals or display ordinals differ between a and b
Changed(a, b, written) ==
    {n \in written : \/ a[n].ordinals # b[n].ordinals
                     \/ a[n].display_ordinals # b[n].display_ordinals}

\* C14 as stated: a repair writes only rows whose ordinals or display ordinals
\* changed, and a second repair of the same root, right after, writes no row.
C14_SecondRepairWritesNothing ==
    \A c \in DOMAIN casebooks : \A root \in RepairRoots(nodes, c) :
        \A r1 \in RepairWrites(nodes, c, root) :
            /\ Changed(nodes, r1.ns, r1.written) = r1.written
            /\ \A r2 \in RepairWrites(r1.ns, c, root) : r2.written = {}

\* C14 as amended: a repair of a casebook writes only rows whose ordinals or
\* display ordinals changed and a second repair right after writes no row; a
\* repair of a node writes, besides the changed rows, the node's own row every
\* time, so a second repair right after writes that row and no other.  The
\* second repair leaves every stored value as it was.
C14_SecondRepairWritesOnlyRoot ==
    \A c \in DOMAIN casebooks : \A root \in RepairRoots(nodes, c) :
        \A r1 \in RepairWrites(nodes, c, root) :
            /\ Changed(nodes, r1.ns, r1.written \ {root}) = r1.written \ {root}
            /\ root # RootId => root \in r1.written
            /\ \A r2 \in RepairWrites(r1.ns, c, root) :
                  /\ r2.written = (IF root = RootId THEN {} ELSE {root})
                  /\ r2.ns = r1.ns

\* C14 witness: a move has left casebook 1 with paths a repair of the casebook
\* rewrites, and with a section whose repair rewrites a descendant; the second
\* repair of the casebook writes nothing and the second repair of the section
\* writes the section's row.
C14_Witness ==
    /\ result.op = "move_to"
    /\ \E r1 \in RepairWrites(nodes, 1, RootId) :
          /\ r1.written # {}
          /\ \A r2 \in RepairWrites(r1.ns, 1, RootId) : r2.written = {}
    /\ \E root \in CasebookContents(nodes, 1) :
          \E r1 \in RepairWrites(nodes, 1, root) :
             /\ r1.written \ {root} # {}
             /\ \A r2 \in RepairWrites(r1.ns, 1, root) : r2.written = {root}

(***************************************************************************)
(* The lifecycle of a published casebook and its drafts                    *)
(***************************************************************************)
MaxCasebooks == 3    \* make_draft creates casebooks up to this id
MaxEdits == 3        \* editors make this many changes by hand

Users == {1, 2}

\* Casebook 1 is published, with a section at [1] and a text block at [2], and
\* has two collaborators.
InitLife ==
    /\ nodes = (1 :> NodeRow(1, <<1>>, <<1>>, TRUE, "Section", NoneId, <<>>))
            @@ (2 :> NodeRow(1, <<2>>, <<2>>, TRUE, "TextBlock", 1, <<>>))
    /\ casebooks = (1 :> CasebookRow(PUBLISHED, <<>>, Users))
    /\ edit_log = <<>>
    /\ seq = [casebook |-> 2, node |-> 3, textblock |-> 2, link |-> 1]
    /\ edits = 0
    /\ result = NoCall
    /\ calls = NoCalls

CurrentDb == Db(casebooks, nodes, edit_log, seq)

\* the rows an operation leaves stored, and what its caller sees
Commit(op, o) ==
    /\ casebooks' = o.cbs
    /\ nodes' = o.ns
    /\ edit_log' = o.log
    /\ seq' = o.seq
    /\ result' = [op |-> op, err |-> o.err]
    /\ UNCHANGED <<edits, calls>>

MakeDraft(c) ==
    /\ c \in DOMAIN casebooks
    /\ can_transition_to(casebooks[c], REVISING) => seq.casebook <= MaxCasebooks
    /\ \E o \in make_draft(CurrentDb, c) : Commit("make_draft", o)

MergeDraft(c) ==
    /\ c \in DOMAIN casebooks
    /\ \E o \in merge_draft(CurrentDb, c) : Commit("merge_draft", o)

TransitionTo(c, target_state) ==
    /\ c \in DOMAIN casebooks
    /\ \E o \in transition_to(CurrentDb, c, target_state) : Commit("transition_to", o)

Archive(c) ==
    /\ c \in DOMAIN casebooks
    /\ \E o \in archive(CurrentDb, c) : Commit("archive", o)

Unarchive(c) ==
    /\ c \in DOMAIN casebooks
    /\ \E o \in unarchive(CurrentDb, c) : Commit("unarchive", o)

Depublish(c) ==
    /\ c \in DOMAIN casebooks
    /\ \E o \in depublish(CurrentDb, c) : Commit("depublish", o)

\* Casebook.content_tree__get_next_available_child_ordinals
next_available_child_ordinals(ns, children) ==
    [ordinals |-> <<SetMax({Last(ns[x].ordinals) : x \in children} \cup {0}) + 1>>,
     display_ordinals |->
         <<SetMax({Last(ns[x].display_ordinals) : x \in children} \cup {0}) + 1>>]

\* an editor of casebook c appends a new section or text block at the top level
AddNode(c, rtype) ==
    /\ c \in DOMAIN casebooks
    /\ in_edit_state(casebooks[c])
    /\ edits < MaxEdits
    /\ \E t \in LoadedTrees(nodes, c, RootId) :
          LET children == {t.ch[RootId][i] : i \in 1..Len(t.ch[RootId])}
              next == next_available_child_ordinals(nodes, children)
          IN nodes' = nodes @@ (seq.node :>
                 NodeRow(c, next.ordinals, next.display_ordinals, TRUE, rtype,
                         IF rtype = "TextBlock" THEN seq.textblock ELSE NoneId, <<>>))
    /\ seq' = [seq EXCEPT !.node = @ + 1,
                          !.textblock = IF rtype = "TextBlock" THEN @ + 1 ELSE @]
    /\ edits' = edits + 1
    /\ result' = [op |-> "add_node", err |-> ""]
    /\ UNCHANGED <<casebooks, edit_log, calls>>

\* node s's body is saved with content v: every row that refers to the body
\* reads the new content
SaveBody(ns, s, v) ==
    [n \in DOMAIN ns |->
        IF /\ ns[n].resource_type = ns[s].resource_type
           /\ ns[n].resource_id = ns[s].resource_id
        THEN [ns[n] EXCEPT !.content = v] ELSE ns[n]]

\* an editor rewrites the body of resource s
EditResource(s) ==
    /\ s \in DOMAIN nodes
    /\ is_resource(nodes[s])
    /\ nodes[s].casebook \in DOMAIN casebooks
    /\ in_edit_state(casebooks[nodes[s].casebook])
    /\ nodes' = SaveBody(nodes, s, s)
    /\ edits < MaxEdits
    /\ edits' = edits + 1
    /\ result' = [op |-> "edit_resource", err |-> ""]
    /\ UNCHANGED <<casebooks, edit_log, seq, calls>>

\* an editor changes the annotations of resource s
Annotate(s) ==
    /\ s \in DOMAIN nodes
    /\ is_resource(nodes[s])
    /\ nodes[s].casebook \in DOMAIN casebooks
    /\ in_edit_state(casebooks[nodes[s].casebook])
    /\ nodes' = [nodes EXCEPT ![s].annotations = s]
    /\ edits < MaxEdits
    /\ edits' = edits + 1
    /\ result' = [op |-> "annotate", err |-> ""]
    /\ UNCHANGED <<casebooks, edit_log, seq, calls>>

\* an editor rewrites title, subtitle, description and headnote of casebook c
EditCasebook(c) ==
    /\ c \in DOMAIN casebooks
    /\ in_edit_state(casebooks[c])
    /\ casebooks' = [casebooks EXCEPT ![c].title = c, ![c].subtitle = c,
                                      ![c].description = c, ![c].headnote = c]
    /\ edits < MaxEdits
    /\ edits' = edits + 1
    /\ result' = [op |-> "edit_casebook", err |-> ""]
    /\ UNCHANGED <<nodes, edit_log, seq, calls>>

\* an editor deletes node s of a casebook that is being edited
DeleteNode(s) ==
    /\ s \in DOMAIN nodes
    /\ nodes[s].casebook \in DOMAIN casebooks
    /\ in_edit_state(casebooks[nodes[s].casebook])
    /\ edits < MaxEdits
    /\ \E o \in ContentNodeDelete(nodes, s) :
          /\ nodes' = o.ns
          /\ result' = [op |-> "delete", err |-> o.err]
    /\ edits' = edits + 1
    /\ UNCHANGED <<casebooks, edit_log, seq, calls>>

\* any sequence of make_draft, merge_draft, transition_to, archive, unarchive
\* and depublish calls, one at a time
NextLife ==
    \/ \E c \in DOMAIN casebooks : MakeDraft(c)
    \/ \E c \in DOMAIN casebooks : MergeDraft(c)
    \/ \E c \in DOMAIN casebooks : \E t \in LifeCycle : TransitionTo(c, t)
    \/ \E c \in DOMAIN casebooks : Archive(c)
    \/ \E c \in DOMAIN casebooks : Unarchive(c)
    \/ \E c \in DOMAIN casebooks : Depublish(c)

SpecLife == InitLife /\ [][NextLife]_vars

\* the draft workflow: a draft is made, edited by hand and merged, by merge_draft
\* or by publishing the draft or its parent
NextDraft ==
    \/ \E c \in DOMAIN casebooks : MakeDraft(c)
    \/ \E c \in DOMAIN casebooks : MergeDraft(c)
    \/ \E c \in DOMAIN casebooks : TransitionTo(c, PUBLISHED)
    \/ \E c \in DOMAIN casebooks : \E rtype \in {"Section", "TextBlock"} : AddNode(c, rtype)
    \/ \E s \in DOMAIN nodes : EditResource(s)
    \/ \E s \in DOMAIN nodes : Annotate(s)
    \/ \E c \in DOMAIN casebooks : EditCasebook(c)
    \/ \E s \in DOMAIN nodes : DeleteNode(s)

SpecDraft == InitLife /\ [][NextDraft]_vars

(***************************************************************************)
(* Lifecycle properties                                                    *)
(***************************************************************************)
\* C5: transition_to(target) raises and leaves the casebook's stored state and
\* draft reference (and every other row) unchanged whenever the transition table
\* marks (current state, target) as not allowed; a target equal to the current
\* state is always such a pair.
C5_DisallowedTransitionRejected ==
    \A c \in DOMAIN casebooks : \A t \in LifeCycle :
        (t = casebooks[c].state \/ <<casebooks[c].state, t>> \notin transition_options) =>
            \A o \in transition_to(CurrentDb, c, t) :
                /\ o.err # ""
                /\ o.cbs[c].state = casebooks[c].state
                /\ o.cbs[c].draft = casebooks[c].draft
                /\ o.cbs = casebooks /\ o.ns = nodes /\ o.log = edit_log

\* C5 witness: a transition_to call has been rejected, in a state that holds a
\* PREVIOUS_SAVE casebook (no target is allowed for it) next to a published one
\* whose transition to its own state is rejected.
C5_Witness ==
    /\ result = [op |-> "transition_to", err |-> "Cannot transition to desired state"]
    /\ \E c, d \in DOMAIN casebooks :
          /\ casebooks[c].state = PUBLISHED
          /\ casebooks[d].state = PREVIOUS_SAVE
          /\ \A o \in transition_to(CurrentDb, c, PUBLISHED) : o.err # ""
          /\ \A t \in LifeCycle : \A o \in transition_to(CurrentDb, d, t) : o.err # ""

\* C6: make_draft() on a PUBLISHED casebook leaves it REVISING and creates exactly
\* one casebook, in DRAFT state, that the original's draft reference points to,
\* whose provenance is the original's followed by the original's id and whose
\* collaborators are the original's; on any other state it raises and creates
\* nothing.
C6_MakeDraft ==
    \A c \in DOMAIN casebooks : \A o \in make_draft(CurrentDb, c) :
        IF casebooks[c].state = PUBLISHED
        THEN /\ o.err = ""
             /\ o.cbs[c].state = REVISING
             /\ Cardinality(DOMAIN o.cbs \ DOMAIN casebooks) = 1
             /\ DOMAIN casebooks \subseteq DOMAIN o.cbs
             /\ \A d \in DOMAIN o.cbs \ DOMAIN casebooks :
                   /\ o.cbs[d].state = DRAFT
                   /\ o.cbs[c].draft = d
                   /\ o.cbs[d].provenance = casebooks[c].provenance \o <<c>>
                   /\ o.cbs[d].collaborators = casebooks[c].collaborators
        ELSE /\ o.err # ""
             /\ DOMAIN o.cbs = DOMAIN casebooks
             /\ DOMAIN o.ns = DOMAIN nodes

\* C6 witness: make_draft has returned; the original is REVISING and refers to a
\* DRAFT casebook with its provenance tail and its two collaborators.
C6_Witness ==
    /\ result = [op |-> "make_draft", err |-> ""]
    /\ \E c, d \in DOMAIN casebooks :
          /\ casebooks[c].state = REVISING
          /\ casebooks[c].draft = d
          /\ casebooks[d].state = DRAFT
          /\ casebooks[d].provenance = casebooks[c].provenance \o <<c>>
          /\ casebooks[d].collaborators = casebooks[c].collaborators
          /\ Cardinality(casebooks[d].collaborators) = 2

\* C7: in every state reachable through make_draft, merge_draft, transition_to,
\* archive, unarchive and depublish, each casebook has at most one casebook in
\* DRAFT state whose provenance ends with its id, and a draft reference that is
\* set refers to a casebook whose provenance ends with the referring casebook's id.
C7_OneDraftPerCasebook ==
    \A c \in DOMAIN casebooks :
        /\ Cardinality({d \in DOMAIN casebooks :
                           /\ casebooks[d].state = DRAFT
                           /\ casebooks[d].provenance # <<>>
                           /\ Last(casebooks[d].provenance) = c}) <= 1
        /\ casebooks[c].draft # NoCasebook =>
              /\ casebooks[c].draft \in DOMAIN casebooks
              /\ casebooks[casebooks[c].draft].provenance # <<>>
              /\ Last(casebooks[casebooks[c].draft].provenance) = c

\* C7 witness: a casebook is being revised for the second time: an earlier draft
\* of it is stored as PREVIOUS_SAVE and its draft reference names a second one.
C7_Witness ==
    \E c, d1, d2 \in DOMAIN casebooks :
        /\ d1 # d2
        /\ casebooks[c].draft = d2
        /\ casebooks[d2].state = DRAFT
        /\ casebooks[d1].state = PREVIOUS_SAVE
        /\ casebooks[d1].provenance # <<>> /\ Last(casebooks[d1].provenance) = c
        /\ casebooks[d2].provenance # <<>> /\ Last(casebooks[d2].provenance) = c

C9_PublishRunsMerge ==
    \A c \in DOMAIN casebooks :
        can_transition_to(casebooks[c], PUBLISHED) =>
            \A o \in transition_to(CurrentDb, c, PUBLISHED) :
                IF casebooks[c].draft # NoCasebook \/ casebooks[c].state = DRAFT
                THEN \E p, d \in DOMAIN casebooks :
                        /\ casebooks[p].draft = d
                        /\ c \in {p, d}
                        /\ casebooks[c].draft # NoCasebook => c = p
                        /\ o.err = ""
                        /\ o.cbs[p].state = PUBLISHED
                        /\ o.cbs[p].draft = NoCasebook
                        /\ o.cbs[d].state = PREVIOUS_SAVE
                ELSE /\ o.err = ""
                     /\ o.cbs = [casebooks EXCEPT ![c].state = PUBLISHED]
                     /\ o.ns = nodes
                     /\ o.log = edit_log

\* the edit-log entries an outcome of merge_draft has added
NewEntries(o) == SubSeq(o.log, Len(edit_log) + 1, Len(o.log))

\* how many of the entries record change for node n
CountEntries(entries, n, change) ==
    Cardinality({i \in 1..Len(entries) :
                    entries[i].content = n /\ entries[i].change = change})

\* node n of the parent has a counterpart in draft d: a node cloned from it
HasCounterpart(n, d) ==
    \E m \in CasebookContents(nodes, d) :
        nodes[m].provenance # <<>> /\ Last(nodes[m].provenance) = n

\* C10 as stated: merge_draft() records one Added entry for every node of the
\* draft that has no provenance, sections as well as resources, one Removed entry
\* for every node of the parent without a counterpart in the draft, and no Added
\* or Removed entry for any other node.
C10_AddedForEveryNewNode ==
    \A d \in DOMAIN casebooks : \A o \in merge_draft(CurrentDb, d) :
        o.err = "" =>
            \A p \in draft_of(casebooks, d) : \A n \in DOMAIN nodes :
                /\ CountEntries(NewEntries(o), n, "Added") =
                      (IF nodes[n].casebook = d /\ nodes[n].provenance = <<>> THEN 1 ELSE 0)
                /\ CountEntries(NewEntries(o), n, "Removed") =
                      (IF nodes[n].casebook = p /\ ~HasCounterpart(n, d) THEN 1 ELSE 0)

\* C10, amended: merge_draft() records one Added entry for every resource node of
\* the draft that has no provenance and none for a section, one Removed entry for
\* every node of the parent without a counterpart in the draft, no Added or
\* Removed entry for any other node, and every such entry names the parent.
C10_AddedForNewResources ==
    \A d \in DOMAIN casebooks : \A o \in merge_draft(CurrentDb, d) :
        o.err = "" =>
            \A p \in draft_of(casebooks, d) :
                /\ \A n \in DOMAIN nodes :
                      /\ CountEntries(NewEntries(o), n, "Added") =
                            (IF /\ nodes[n].casebook = d
                                /\ nodes[n].provenance = <<>>
                                /\ nodes[n].resource_type # "Section"
                             THEN 1 ELSE 0)
                      /\ CountEntries(NewEntries(o), n, "Removed") =
                            (IF nodes[n].casebook = p /\ ~HasCounterpart(n, d) THEN 1 ELSE 0)
                /\ \A i \in 1..Len(NewEntries(o)) :
                      /\ NewEntries(o)[i].casebook = p
                      /\ NewEntries(o)[i].content \in DOMAIN nodes

\* C10 witness: a draft holds a new section and a new text block, neither with
\* provenance, next to a clone of one of the parent's two nodes, the other clone
\* having been deleted; merging it records an Added entry for the text block,
\* none for the section, and a Removed entry for the parent's node that has no
\* counterpart.
C10_Witness ==
    \E d \in DOMAIN casebooks : \E s, r \in CasebookContents(nodes, d) :
        /\ casebooks[d].state = DRAFT
        /\ nodes[s].provenance = <<>> /\ nodes[s].resource_type = "Section"
        /\ nodes[r].provenance = <<>> /\ nodes[r].resource_type = "TextBlock"
        /\ \E m \in CasebookContents(nodes, d) : nodes[m].provenance # <<>>
        /\ \E p \in draft_of(casebooks, d) : \E x \in CasebookContents(nodes, p) :
              /\ ~HasCounterpart(x, d)
              /\ \E o \in merge_draft(CurrentDb, d) :
                    /\ o.err = ""
                    /\ CountEntries(NewEntries(o), r, "Added") = 1
                    /\ CountEntries(NewEntries(o), s, "Added") = 0
                    /\ CountEntries(NewEntries(o), x, "Removed") = 1
                    /\ o.ns[s].casebook = p
                    /\ o.ns[x].casebook = d

(***************************************************************************)
(* Display ordinals, instructional material and who may view a node        *)
(***************************************************************************)
\* a save that stores the row as the caller set it
MaterializedPathTreeMixinSave_asis(row) == row

\* MaterializedPathTreeMixin.save: "If this node is instructional, it cannot
\* display ordinals"
MaterializedPathTreeMixinSave(row) ==
    IF row.is_instructional_material /\ row.does_display_ordinals
    THEN [row EXCEPT !.does_display_ordinals = FALSE]
    ELSE row

\* ".".join(str(o) for o in ...): the numbers with a "." between them
RECURSIVE DotJoin(_)
DotJoin(os) ==
    IF os = <<>> THEN <<>>
    ELSE IF Len(os) = 1 THEN <<os[1]>>
    ELSE <<os[1], ".">> \o DotJoin(Tail(os))

\* an ordinal string that is shown whatever does_display_ordinals says
ordinal_string_always(row) == DotJoin(row.display_ordinals)

\* ordinal_string: <<>> is the empty string
ordinal_string(row) ==
    IF row.does_display_ordinals THEN DotJoin(row.display_ordinals) ELSE <<>>

\* content_tree__get_next_available_child_ordinals of self (RootId: of the
\* casebook), children being its content_tree__children after the load
content_tree__get_next_available_child_ordinals(ns, children, self) ==
    IF self = RootId THEN next_available_child_ordinals(ns, children)
    ELSE LET prefix == ns[self].ordinals
         IN [ordinals |->
                 prefix \o <<SetMax({Last(ns[x].ordinals) : x \in children} \cup {0}) + 1>>,
             display_ordinals |->
                 prefix \o <<SetMax({Last(ns[x].ordinals) :
                                        x \in {y \in children : ns[y].does_display_ordinals}}
                                    \cup {0}) + 1>>]

\* the users who ask to view a node: AnonymousUser, and users 1 to 3 with every
\* combination of flags
AnonymousUser ==
    [id |-> NoneId, is_authenticated |-> FALSE, verified_professor |-> FALSE,
     is_staff |-> FALSE, is_superuser |-> FALSE]

Viewers ==
    {AnonymousUser} \cup
    [id : 1..3, is_authenticated : {TRUE}, verified_professor : BOOLEAN,
     is_staff : BOOLEAN, is_superuser : BOOLEAN]

\* User.user_can_view_instructional_material
user_can_view_instructional_material(user) ==
    user.is_authenticated /\ (user.verified_professor \/ user.is_staff)

\* Casebook.viewable_by
Casebook_viewable_by(row, user) ==
    \/ /\ row.state \notin {ARCHIVED, PREVIOUS_SAVE}
       /\ is_public(row) \/ user.is_superuser
    \/ user.id \in row.collaborators

\* a node that everyone who may view its casebook may view
ContentNode_viewable_by_all(cbs, row, user) ==
    IF row.casebook = NoCasebook THEN FALSE
    ELSE Casebook_viewable_by(cbs[row.casebook], user)

\* ContentNode.viewable_by
ContentNode_viewable_by(cbs, row, user) ==
    IF row.casebook = NoCasebook THEN FALSE
    ELSE IF ~Casebook_viewable_by(cbs[row.casebook], user) THEN FALSE
    ELSE IF row.is_instructional_material THEN user_can_view_instructional_material(user)
    ELSE TRUE

MaxSaves == 2        \* saves and additions of nodes made to the casebook

\* Casebook 1, in some state and with user 1 as collaborator, holds s_1 [1] with
\* r_1_1 [1,1], r_1_2 [1,2] and r_1_3 [1,3], and s_2 [2]; every node shows its
\* ordinal
InitNode ==
    /\ nodes = (1 :> NodeRow(1, <<1>>, <<1>>, TRUE, "Section", NoneId, <<>>))
            @@ (2 :> NodeRow(1, <<1, 1>>, <<1, 1>>, TRUE, "TextBlock", 1, <<>>))
            @@ (3 :> NodeRow(1, <<1, 2>>, <<1, 2>>, TRUE, "LegalDocument", 1, <<>>))
            @@ (4 :> NodeRow(1, <<1, 3>>, <<1, 3>>, TRUE, "Link", 1, <<>>))
            @@ (5 :> NodeRow(1, <<2>>, <<2>>, TRUE, "Section", NoneId, <<>>))
    /\ \E st \in {PRIVATELY_EDITING, PUBLISHED, ARCHIVED} :
          casebooks = (1 :> CasebookRow(st, <<>>, {1}))
    /\ edit_log = <<>>
    /\ seq = [casebook |-> 2, node |-> 6, textblock |-> 2, link |-> 2]
    /\ edits = 0
    /\ result = NoCall
    /\ calls = NoCalls

\* an editor sets is_instructional_material and does_display_ordinals of node s
\* and calls save()
SaveNode(s, instructional, shows) ==
    /\ s \in DOMAIN nodes
    /\ edits < MaxSaves
    /\ nodes' = [nodes EXCEPT ![s] =
                    MaterializedPathTreeMixinSave(
                        [@ EXCEPT !.is_instructional_material = instructional,
                                  !.does_display_ordinals = shows])]
    /\ edits' = edits + 1
    /\ result' = [op |-> "save_node", err |-> "", node |-> s,
                  instructional |-> instructional, shows |-> shows]
    /\ UNCHANGED <<casebooks, edit_log, seq, calls>>

\* an editor adds a section under parent (RootId: at the top level of casebook
\* c), at the ordinals content_tree__get_next_available_child_ordinals returns
AddChild(c, parent) ==
    /\ c \in DOMAIN casebooks
    /\ edits < MaxSaves
    /\ \/ parent = RootId
       \/ /\ parent \in DOMAIN nodes
          /\ nodes[parent].casebook = c
          /\ ~is_resource(nodes[parent])
    /\ \E t \in LoadedTrees(nodes, c, parent) :
          LET children == {t.ch[parent][i] : i \in 1..Len(t.ch[parent])}
              next == content_tree__get_next_available_child_ordinals(nodes, children, parent)
          IN nodes' = nodes @@ (seq.node :>
                 NodeRow(c, next.ordinals, next.display_ordinals, TRUE, "Section",
                         NoneId, <<>>))
    /\ seq' = [seq EXCEPT !.node = @ + 1]
    /\ edits' = edits + 1
    /\ result' = [op |-> "add_child", err |-> ""]
    /\ UNCHANGED <<casebooks, edit_log, calls>>

NextNode ==
    \/ \E s \in DOMAIN nodes : \E instructional, shows \in BOOLEAN :
          SaveNode(s, instructional, shows)
    \/ \E c \in DOMAIN casebooks : \E parent \in {RootId} \cup DOMAIN nodes : AddChild(c, parent)
    \/ \E c \in DOMAIN casebooks : Repair(c, RootId)
    \/ \E s \in DOMAIN nodes : DeleteNode(s)

SpecNode == InitNode /\ [][NextNode]_vars

\* the display ordinals of the parent of row n (<<>> for the casebook)
ParentDisplay(ns, n) ==
    LET o == ns[n].ordinals
    IN IF Len(o) = 1 THEN <<>>
       ELSE ns[CHOOSE p \in NodesAt(ns, ns[n].casebook, ButLast(o)) : TRUE].display_ordinals

\* the siblings of n at or before it that show their ordinal
ShownUpTo(ns, n) ==
    {m \in Siblings(ns, ns[n].casebook, ButLast(ns[n].ordinals)) :
        Last(ns[m].ordinals) <= Last(ns[n].ordinals) /\ ns[m].does_display_ordinals}

\* the nodes a repair of root renumbers: the rows below root
Below(ns, c, root) ==
    IF root = RootId THEN CasebookContents(ns, c) ELSE NodeContents(ns, root)

\* the later siblings of s that show their ordinal
LaterShown(ns, s) ==
    {m \in Siblings(ns, ns[s].casebook, ButLast(ns[s].ordinals)) :
        Last(ns[m].ordinals) > Last(ns[s].ordinals) /\ ns[m].does_display_ordinals}

\* C23: after content_tree__repair of a casebook or of one of its nodes, each
\* renumbered node's display_ordinals are its parent's display_ordinals followed
\* by the number of its siblings at or before it that show their ordinal, and a
\* node that does not show its ordinal has the empty ordinal_string; so saving a
\* displaying node as non-displaying and repairing again lowers the display
\* number of each later displaying sibling by one.
C23_DisplayOrdinalsCountShownSiblings ==
    \A c \in DOMAIN casebooks : \A root \in {RootId} \cup CasebookContents(nodes, c) :
       \A ns2 \in content_tree__repair(nodes, c, root) :
          /\ \A n \in Below(ns2, c, root) :
                /\ ns2[n].display_ordinals =
                      ParentDisplay(ns2, n) \o <<Cardinality(ShownUpTo(ns2, n))>>
                /\ ~ns2[n].does_display_ordinals => ordinal_string(ns2[n]) = <<>>
                /\ ns2[n].does_display_ordinals =>
                      ordinal_string(ns2[n]) = DotJoin(ns2[n].display_ordinals)
          /\ root = RootId =>
                \A s \in {n \in CasebookContents(ns2, c) : ns2[n].does_display_ordinals} :
                   LET ns3 == [ns2 EXCEPT ![s] =
                                  MaterializedPathTreeMixinSave(
                                      [@ EXCEPT !.does_display_ordinals = FALSE])]
                   IN \A ns4 \in content_tree__repair(ns3, c, RootId) :
                         \A m \in LaterShown(ns2, s) :
                            /\ Last(ns4[m].display_ordinals) =
                                  Last(ns2[m].display_ordinals) - 1
                            /\ ns4[m].ordinals = ns2[m].ordinals

\* r_1_2 was saved as not showing its ordinal and the casebook repaired: r_1_2
\* at [1, 2] reports '' and r_1_3 at [1, 3] reports "1.2"
C23_Witness ==
    /\ result.op = "repair"
    /\ nodes[3].ordinals = <<1, 2>> /\ ~nodes[3].does_display_ordinals
    /\ ordinal_string(nodes[3]) = <<>>
    /\ nodes[4].ordinals = <<1, 3>>
    /\ ordinal_string(nodes[4]) = <<1, ".", 2>>

\* C24: after any ContentNode.save(), a node with is_instructional_material has
\* does_display_ordinals = FALSE.
C24_InstructionalNeverDisplays ==
    \A n \in DOMAIN nodes :
       nodes[n].is_instructional_material => ~nodes[n].does_display_ordinals

\* a node was saved as instructional and as showing its ordinal, and is stored
\* as not showing it
C24_Witness ==
    /\ result.op = "save_node"
    /\ result.instructional /\ result.shows
    /\ nodes[result.node].is_instructional_material
    /\ ~nodes[result.node].does_display_ordinals

\* C25: content_tree__get_next_available_child_ordinals of the casebook or of a
\* section returns, as real path, the parent's path followed by 1 + the highest
\* last ordinal of its direct children (0 when it has none) and, as display
\* path, the parent's display path followed by 1 + the highest display number
\* of the direct children that show their ordinal (0 when there are none).
\* Stated for a casebook that has just been repaired.
C25_NextChildOrdinalsFromDisplaySequence ==
    result.op = "repair" =>
       \A c \in DOMAIN casebooks :
          \A parent \in {RootId} \cup {n \in CasebookContents(nodes, c) : ~is_resource(nodes[n])} :
             \A t \in LoadedTrees(nodes, c, parent) :
                LET children == {t.ch[parent][i] : i \in 1..Len(t.ch[parent])}
                    shown    == {x \in children : nodes[x].does_display_ordinals}
                    path     == IF parent = RootId THEN <<>> ELSE nodes[parent].ordinals
                    display  == IF parent = RootId THEN <<>>
                                ELSE nodes[parent].display_ordinals
                    next     == content_tree__get_next_available_child_ordinals(
                                    nodes, children, parent)
                IN /\ next.ordinals =
                         path \o <<SetMax({Last(nodes[x].ordinals) : x \in children}
                                          \cup {0}) + 1>>
                   /\ next.display_ordinals =
                         display \o <<SetMax({Last(nodes[x].display_ordinals) : x \in shown}
                                             \cup {0}) + 1>>

\* path o after the node at path gone has left and its later siblings, with
\* their subtrees, have moved up by one
GapClosed(o, gone) ==
    IF /\ Len(o) >= Len(gone)
       /\ Take(o, Len(gone) - 1) = ButLast(gone)
       /\ o[Len(gone)] > Last(gone)
    THEN [o EXCEPT ![Len(gone)] = @ - 1]
    ELSE o

\* C26: ContentNode.delete on a section of a well-formed tree returns, removes
\* the section and every descendant row (with the annotations they hold) and
\* the TextBlock and Link bodies of the descendants, removes no LegalDocument
\* body, keeps every other row, and leaves each kept row of the casebook at its
\* old path with the gap closed.
C26_SectionDeleteRemovesSubtree ==
    \A s \in {n \in DOMAIN nodes : /\ nodes[n].casebook \in DOMAIN casebooks
                                    /\ nodes[n].resource_type = "Section"
                                    /\ WellFormed(nodes, nodes[n].casebook)} :
       LET c       == nodes[s].casebook
           subtree == {s} \cup {n \in CasebookContents(nodes, c) :
                                   /\ n # s
                                   /\ content_tree__is_descendant_of(nodes, n, s)}
       IN /\ DeletedBodies(nodes, s) =
                {Body(nodes[n]) : n \in {x \in subtree :
                                            nodes[x].resource_type \in {"TextBlock", "Link"}}}
          /\ \A b \in DeletedBodies(nodes, s) : b[1] # "LegalDocument"
          /\ \A o \in ContentNodeDelete(nodes, s) :
                /\ o.err = ""
                /\ DOMAIN o.ns = DOMAIN nodes \ subtree
                /\ \A n \in DOMAIN o.ns :
                      /\ o.ns[n].annotations = nodes[n].annotations
                      /\ o.ns[n].casebook = nodes[n].casebook
                      /\ Body(o.ns[n]) = Body(nodes[n])
                      /\ o.ns[n].ordinals =
                            IF nodes[n].casebook = c
                            THEN GapClosed(nodes[n].ordinals, nodes[s].ordinals)
                            ELSE nodes[n].ordinals
                /\ ValidTree(o.ns, c)

\* section [1] with its text block, legal document and link was deleted: none of
\* the four rows is left and the former [2] is at [1]
C26_Witness ==
    /\ result = [op |-> "delete", err |-> ""]
    /\ {1, 2, 3, 4} \cap DOMAIN nodes = {}
    /\ 5 \in DOMAIN nodes
    /\ nodes[5].ordinals = <<1>>

\* the stored nodes marked as instructional material
Instructional == {n \in DOMAIN nodes : nodes[n].is_instructional_material}

\* user is a collaborator of the casebook of node n
Collaborates(user, n) == user.id \in casebooks[nodes[n].casebook].collaborators

CONTENT_TREE_NOT_LOADED ==
    [parent_loaded |-> FALSE, parent |-> NoneId, children_loaded |-> FALSE,
     children |-> <<>>]

\* the instances content_tree__load of root (RootId: of casebook c) has populated
LoadedBy(ns, c, root) ==
    IF root = RootId THEN {RootId} \cup CasebookContents(ns, c)
    ELSE {root} \cup NodeContents(ns, root)

\* the instances in memory after the load of root gave tree t
Instances(ns, c, root, t) ==
    [n \in DOMAIN t.ch |->
        IF n \in LoadedBy(ns, c, root)
        THEN [parent_loaded |-> n # RootId, parent |-> t.par[n],
              children_loaded |-> TRUE, children |-> t.ch[n]]
        ELSE CONTENT_TREE_NOT_LOADED]

Returned(v) == [err |-> "", placeholder |-> FALSE, value |-> v]

Raised(e) == [err |-> e, placeholder |-> FALSE, value |-> <<>>]

\* the property content_tree__parent
content_tree__parent(inst) ==
    IF ~inst.parent_loaded THEN Raised("ValueError") ELSE Returned(inst.parent)

\* the property content_tree__children
content_tree__children(inst) ==
    IF ~inst.children_loaded THEN Raised("ValueError") ELSE Returned(inst.children)

\* the property children: "return self._content_tree__children"
children_property(inst) ==
    IF ~inst.children_loaded
    THEN [err |-> "", placeholder |-> TRUE, value |-> <<>>]
    ELSE Returned(inst.children)

\* the generator content_tree__descendants of instance n, run to its end:
\* "for child in self.children" over CONTENT_TREE_NOT_LOADED is a TypeError
RECURSIVE DescendantsLoop(_, _, _, _)
DescendantsLoop(insts, kids, i, out) ==
    IF i > Len(kids) THEN Returned(out)
    ELSE IF ~insts[kids[i]].children_loaded THEN Raised("TypeError")
    ELSE DescendantsLoop(insts, kids, i + 1,
                         out \o <<kids[i]>> \o insts[kids[i]].children)

content_tree__descendants(insts, n) ==
    IF ~insts[n].children_loaded THEN Raised("TypeError")
    ELSE DescendantsLoop(insts, insts[n].children, 1, <<>>)

\* C27: each of content_tree__children, content_tree__parent, children and
\* content_tree__descendants fails with an error on an instance that no load
\* has populated, and none returns a placeholder.
C27_AccessorsFailBeforeLoad ==
    \A c \in DOMAIN casebooks : \A root \in CasebookContents(nodes, c) :
       \A t \in LoadedTrees(nodes, c, root) :
          LET insts == Instances(nodes, c, root, t)
          IN \A n \in CasebookContents(nodes, c) \ LoadedBy(nodes, c, root) :
                /\ content_tree__children(insts[n]).err # ""
                /\ content_tree__parent(insts[n]).err # ""
                /\ children_property(insts[n]).err # ""
                /\ ~children_property(insts[n]).placeholder
                /\ content_tree__descendants(insts, n).err # ""

(***************************************************************************)
(* Two requests at a time on the tree of one casebook                      *)
(* move_to, repair and delete run outside any transaction: each of their   *)
(* queries is committed on its own.  A call reads the rows (load), computes *)
(* the new ordinals in memory, and writes them with one bulk_update; the   *)
(* other request's queries can run between the read and the write.         *)
(***************************************************************************)
\* the paths whose components are all 1 or more
PosPaths == {p \in Paths : \A i \in 1..Len(p) : p[i] >= 1}

\* "common_parent_node": the root of the tree move_to loads and stores
CommonParent(ns, s, new_ordinals) ==
    LET common_prefix == commonprefix(ns[s].ordinals, ButLast(new_ordinals))
    IN IF common_prefix = <<>> THEN RootId
       ELSE CHOOSE r \in NodesAt(ns, ns[s].casebook, common_prefix) : TRUE

\* What content_tree__store hands to bulk_update after the rows ns were read and
\* renumbered in memory to ns2: the rows update_ordinals changed (and self for a
\* node), with the ordinals and display_ordinals they have in memory
Updates(ns, ns2, root) ==
    [n \in StoreUpdates(root, {m \in DOMAIN ns2 : ns2[m] # ns[m]}) |->
        [ordinals |-> ns2[n].ordinals, display_ordinals |-> ns2[n].display_ordinals]]

\* bulk_update(to_update, ["ordinals", "display_ordinals"]) on the rows stored
\* now: a row that is gone is not written
bulk_update(ns, upd) ==
    [n \in DOMAIN ns |->
        IF n \in DOMAIN upd
        THEN [ns[n] EXCEPT !.ordinals = upd[n].ordinals,
                           !.display_ordinals = upd[n].display_ordinals]
        ELSE ns[n]]

\* request p calls node.content_tree__move_to(new_ordinals): the checks and the
\* load, up to the point where the store is about to write
BeginMove(p, s, new_ordinals) ==
    /\ calls[p] = Idle
    /\ edits < MaxEdits
    /\ s \in DOMAIN nodes
    /\ new_ordinals # nodes[s].ordinals
    /\ \E o \in content_tree__move_to(nodes, s, new_ordinals) :
          IF o.err # ""
          THEN /\ result' = [op |-> "move_to", err |-> o.err]
               /\ UNCHANGED calls
          ELSE /\ calls' = [calls EXCEPT ![p] =
                              [op |-> "move_to",
                               upd |-> Updates(nodes, o.ns, CommonParent(nodes, s, new_ordinals))]]
               /\ UNCHANGED result
    /\ edits' = edits + 1
    /\ UNCHANGED <<nodes, casebooks, edit_log, seq>>

\* request p calls casebook.content_tree__repair() or node.content_tree__repair():
\* the load
BeginRepair(p, c, root) ==
    /\ calls[p] = Idle
    /\ edits < MaxEdits
    /\ c \in DOMAIN casebooks
    /\ root = RootId \/ (root \in DOMAIN nodes /\ nodes[root].casebook = c)
    /\ \E ns2 \in content_tree__repair(nodes, c, root) :
          calls' = [calls EXCEPT ![p] = [op |-> "repair", upd |-> Updates(nodes, ns2, root)]]
    /\ edits' = edits + 1
    /\ UNCHANGED <<nodes, casebooks, edit_log, seq, result>>

\* request p calls node.delete(): the rows are deleted, and the repair of the
\* parent has loaded the tree
BeginDelete(p, s) ==
    /\ calls[p] = Idle
    /\ edits < MaxEdits
    /\ s \in DOMAIN nodes
    /\ nodes[s].casebook # NoCasebook
    /\ \E o \in ContentNodeDelete(nodes, s) :
          IF o.err # ""
          THEN /\ result' = [op |-> "delete", err |-> o.err]
               /\ UNCHANGED <<nodes, calls>>
          ELSE LET gone == DOMAIN nodes \ DOMAIN o.ns
                   ns1  == [n \in DOMAIN o.ns |-> nodes[n]]
                   parent == LET pp == ButLast(nodes[s].ordinals)
                             IN IF pp = <<>> THEN RootId
                                ELSE CHOOSE r \in NodesAt(nodes, nodes[s].casebook, pp) : TRUE
               IN /\ nodes' = ns1
                  /\ calls' = [calls EXCEPT ![p] =
                                 [op |-> "delete", upd |-> Updates(ns1, o.ns, parent)]]
                  /\ UNCHANGED result
    /\ edits' = edits + 1
    /\ UNCHANGED <<casebooks, edit_log, seq>>

\* the bulk_update of the store of request p's call
EndStore(p) ==
    /\ calls[p] # Idle
    /\ nodes' = bulk_update(nodes, calls[p].upd)
    /\ result' = [op |-> calls[p].op, err |-> ""]
    /\ calls' = [calls EXCEPT ![p] = Idle]
    /\ UNCHANGED <<casebooks, edit_log, seq, edits>>

NextConc ==
    \/ \E p \in Procs : \E s \in DOMAIN nodes : \E new_ordinals \in PosPaths :
          BeginMove(p, s, new_ordinals)
    \/ \E p \in Procs : \E c \in DOMAIN casebooks : \E r \in {RootId} \cup DOMAIN nodes :
          BeginRepair(p, c, r)
    \/ \E p \in Procs : \E s \in DOMAIN nodes : BeginDelete(p, s)
    \/ \E p \in Procs : EndStore(p)

SpecConc == Init /\ [][NextConc]_vars

\* C21: whatever two requests do to the tree of a casebook at the same time,
\* once no call is in flight the rows of every casebook satisfy the path
\* invariant: no two nodes have the same ordinals and sibling numbers have no
\* gap.
C21_ConcurrentMutationsKeepPaths ==
    (\A p \in Procs : calls[p] = Idle)
       => \A c \in DOMAIN casebooks : ValidTree(nodes, c)

(***************************************************************************)
(* Annotation offsets under text edits                                     *)
(* The content of a body is a sequence of tokens: characters and markup    *)
(* tags.  The annotations of a row are a function from annotation ids to   *)
(* [global_start_offset, global_end_offset], offsets into the plain text.  *)
(***************************************************************************)
Markup == {"<i>"}

\* ContentAnnotation.text_from_html: the text with the markup left out
text_from_html(html) == SelectSeq(html, LAMBDA tok : tok \notin Markup)

\* One row of the table of the diff: the lengths of the longest common
\* subsequences of a suffix of before that starts with ch and the suffixes of
\* after; below is the row of the suffix of before without ch.  Entry j + 1 of
\* a row is for the suffix of after from offset j: ch is either left out or
\* kept as its first occurrence in that suffix.
LCSRow(below, ch, after) ==
    LET pos == {k \in 1..Len(after) : after[k] = ch}
    IN [jj \in 1..(Len(after) + 1) |->
           LET occ == {k \in pos : k >= jj}
           IN IF occ = {} THEN below[jj]
              ELSE Max(below[jj], 1 + below[(CHOOSE k \in occ : \A k2 \in occ : k <= k2) + 1])]
       \o <<>>

\* The table of the diff: entry [i + 1][j + 1] is the length of a longest common
\* subsequence of before from offset i and after from offset j.  It is built
\* from the last row upwards: acc holds the rows of the suffixes of before
\* computed so far, the longest suffix first.
RECURSIVE LCSTable(_, _, _)
LCSTable(before, after, acc) ==
    IF Len(acc) = Len(before) + 1 THEN acc
    ELSE LET row == IF acc = <<>> THEN [j \in 1..(Len(after) + 1) |-> 0]
                    ELSE LCSRow(acc[1], before[Len(before) - Len(acc) + 1], after)
         IN LCSTable(before, after, <<row>> \o acc)

\* the edit scripts that turn before from offset i into after from offset j and
\* keep as many characters as the table T says can be kept
RECURSIVE ScriptsFrom(_, _, _, _, _)
ScriptsFrom(T, before, after, i, j) ==
    IF i = Len(before) /\ j = Len(after) THEN {<<>>}
    ELSE LET eq  == IF i < Len(before) /\ j < Len(after) /\ before[i + 1] = after[j + 1]
                    THEN {<<"E">> \o r : r \in ScriptsFrom(T, before, after, i + 1, j + 1)}
                    ELSE {}
             del == IF i < Len(before) /\ T[i + 2][j + 1] = T[i + 1][j + 1]
                    THEN {<<"D">> \o r : r \in ScriptsFrom(T, before, after, i + 1, j)}
                    ELSE {}
             ins == IF j < Len(after) /\ T[i + 1][j + 2] = T[i + 1][j + 1]
                    THEN {<<"I">> \o r : r \in ScriptsFrom(T, before, after, i, j + 1)}
                    ELSE {}
         IN eq \cup del \cup ins

\* The edit scripts a diff of before and after can produce: sequences of "E"
\* (a character kept), "D" (a character of before deleted) and "I" (a
\* character of after inserted) that turn before into after and keep as many
\* characters as possible.  Runs of equal operations are the regions Equal,
\* Delete and Insert.
EditScripts(before, after) ==
    LET T == LCSTable(before, after, <<>>)
    IN ScriptsFrom(T, before, after, 0, 0)

\* AnnotationUpdater.get_first_delta_offset: the lowest offset of before that
\* an operation other than "E" touches, the length of before when there is none
RECURSIVE get_first_delta_offset(_)
get_first_delta_offset(script) ==
    IF script = <<>> \/ Head(script) # "E" THEN 0
    ELSE 1 + get_first_delta_offset(Tail(script))

\* the walk of adjust_offset: bpos and apos are the offsets in before and after
\* that the operations walked so far have reached
RECURSIVE AdjustWalk(_, _, _, _)
AdjustWalk(script, offset, bpos, apos) ==
    IF script = <<>> THEN apos
    ELSE IF Head(script) = "I" THEN AdjustWalk(Tail(script), offset, bpos, apos + 1)
    ELSE IF bpos = offset THEN apos
    ELSE AdjustWalk(Tail(script), offset, bpos + 1,
                    IF Head(script) = "E" THEN apos + 1 ELSE apos)

\* AnnotationUpdater.adjust_offset: an offset in a kept region moves by the
\* lengths inserted and deleted before it, an offset in a deleted region moves
\* to where the region was, an offset past the end moves to the end of after
adjust_offset(script, offset) == AdjustWalk(script, offset, 0, 0)

Offsets(start, end) == [global_start_offset |-> start, global_end_offset |-> end]

\* "new_start = new_end = -1"
Invalidated == Offsets(0 - 1, 0 - 1)

\* ContentAnnotationQuerySet.valid:
\* exclude(global_start_offset=-1, global_end_offset=-1)
valid(annots) == {k \in DOMAIN annots : annots[k] # Invalidated}

\* AnnotatedModel.related_annotations: the valid annotations of the rows that
\* refer to the body of s, by <<row, annotation id>>
related_annotations(ns, s) ==
    LET rows == {n \in DOMAIN ns : /\ ns[n].resource_type = ns[s].resource_type
                                   /\ ns[n].resource_id = ns[s].resource_id}
        keys == UNION {{<<n, i>> : i \in valid(ns[n].annotations)} : n \in rows}
    IN [k \in keys |-> ns[k[1]].annotations[k[2]]]

\* a filter that leaves out the annotations ending at the first changed offset
Selected_gt(a, first) == a.global_end_offset > first

\* "queryset.filter(global_end_offset__gte=updater.get_first_delta_offset())"
Selected(a, first) == a.global_end_offset >= first

\* an end offset that is not adjusted
AdjustedSpan_startonly(script, a) ==
    Offsets(adjust_offset(script, a.global_start_offset), a.global_end_offset)

\* start and end adjusted the wrong way round
AdjustedSpan_swapped(script, a) ==
    Offsets(adjust_offset(script, a.global_end_offset),
            adjust_offset(script, a.global_start_offset))

\* "new_start = updater.adjust_offset(annotation.global_start_offset)" and
\* "new_end = updater.adjust_offset(annotation.global_end_offset)"
AdjustedSpan(script, a) ==
    Offsets(adjust_offset(script, a.global_start_offset),
            adjust_offset(script, a.global_end_offset))

\* a loop body that stores the adjusted offsets whatever they are
Reconciled_nosentinel(a, new) == [row |-> new, write |-> new # a]

\* a loop body that writes every selected annotation
Reconciled_writeall(a, new) ==
    [row |-> IF new # a /\ new.global_start_offset = new.global_end_offset
             THEN Invalidated ELSE new,
     write |-> TRUE]

\* the body of the loop of update_annotations, for annotation a and its adjusted
\* offsets: skipped when unchanged, invalidated when start = end, moved otherwise
Reconciled(a, new) ==
    IF new = a THEN [row |-> a, write |-> FALSE]
    ELSE IF new.global_start_offset = new.global_end_offset
    THEN [row |-> Invalidated, write |-> TRUE]
    ELSE [row |-> new, write |-> TRUE]

\* the loop of update_annotations over the annotations qs, for one edit script:
\* the annotations afterwards and the ones written
UpdateWith(qs, script) ==
    LET first  == get_first_delta_offset(script)
        todo   == {k \in DOMAIN qs : Selected(qs[k], first)}
        rec(k) == Reconciled(qs[k], AdjustedSpan(script, qs[k]))
    IN [annots  |-> [k \in DOMAIN qs |-> IF k \in todo THEN rec(k).row ELSE qs[k]],
        written |-> {k \in todo : rec(k).write}]

\* the outcomes of ContentAnnotation.update_annotations(qs, before_html,
\* after_html)
update_annotations(qs, before_html, after_html) ==
    LET before == text_from_html(before_html)
        after  == text_from_html(after_html)
    IN IF before = after THEN {[annots |-> qs, written |-> {}]}
       ELSE {UpdateWith(qs, script) : script \in EditScripts(before, after)}

\* a save that removes the annotations whose text is gone
AnnotatedModelSave_dropinvalid(ns, s, content) ==
    IF content = ns[s].content THEN {ns}
    ELSE {[n \in DOMAIN ns |->
              IF /\ ns[n].resource_type = ns[s].resource_type
                 /\ ns[n].resource_id = ns[s].resource_id
              THEN [ns[n] EXCEPT
                      !.content = content,
                      !.annotations =
                          [i \in {i2 \in DOMAIN @ : <<n, i2>> \in DOMAIN o.annots
                                                      => o.annots[<<n, i2>>] # Invalidated} |->
                              IF <<n, i>> \in DOMAIN o.annots
                              THEN o.annots[<<n, i>>] ELSE @[i]]]
              ELSE ns[n]] :
          o \in update_annotations(related_annotations(ns, s), ns[s].content, content)}

\* the outcomes of AnnotatedModel.save for the body of s, its content set to
\* content: the rows as stored afterwards
AnnotatedModelSave(ns, s, content) ==
    IF content = ns[s].content THEN {ns}
    ELSE {[n \in DOMAIN ns |->
              IF /\ ns[n].resource_type = ns[s].resource_type
                 /\ ns[n].resource_id = ns[s].resource_id
              THEN [ns[n] EXCEPT
                      !.content = content,
                      !.annotations =
                          [i \in DOMAIN @ |-> IF <<n, i>> \in DOMAIN o.annots
                                              THEN o.annots[<<n, i>>] ELSE @[i]]]
              ELSE ns[n]] :
          o \in update_annotations(related_annotations(ns, s), ns[s].content, content)}

MaxText == 2         \* longest content an editor saves, in tokens
Alphabet == {"a", "b"}
AnnotIds == {1, 2}

\* the contents of at most n tokens
Contents(n) == UNION {[1..k -> Alphabet \cup Markup] : k \in 0..n}

\* the annotations a user can make on text: non-empty spans of it
Spans(text) ==
    {Offsets(q[1], q[2]) :
        q \in {r \in (0..Len(text)) \X (0..Len(text)) : r[1] < r[2]}}

\* A text block of casebook 1 with some content and two annotations on its text
InitAnnot ==
    /\ \E content \in Contents(MaxText) :
          \E annots \in [AnnotIds -> Spans(text_from_html(content))] :
             nodes = (1 :> [NodeRow(1, <<1>>, <<1>>, TRUE, "TextBlock", 1, <<>>)
                               EXCEPT !.content = content, !.annotations = annots])
    /\ casebooks = (1 :> CasebookRow(PRIVATELY_EDITING, <<>>, {1}))
    /\ edit_log = <<>>
    /\ seq = [casebook |-> 2, node |-> 2, textblock |-> 2, link |-> 1]
    /\ edits = 0
    /\ result = NoCall
    /\ calls = NoCalls

\* the body of node s is saved with new content
SaveContent(s, content) ==
    /\ s \in DOMAIN nodes
    /\ nodes[s].resource_type \in {"TextBlock", "LegalDocument"}
    /\ is_resource(nodes[s])
    /\ \E ns2 \in AnnotatedModelSave(nodes, s, content) : nodes' = ns2
    /\ result' = [op |-> "save_content", err |-> ""]
    /\ UNCHANGED <<casebooks, edit_log, seq, edits, calls>>

NextAnnot == \E s \in DOMAIN nodes : \E content \in Contents(MaxText) : SaveContent(s, content)

SpecAnnot == InitAnnot /\ [][NextAnnot]_vars

\* the bodies with text: the rows AnnotatedModel.save reconciles
Annotated == {s \in DOMAIN nodes : nodes[s].resource_type \in {"TextBlock", "LegalDocument"}}

\* the edit scripts from the text of s to the text of the content after
ScriptsTo(s, after) ==
    EditScripts(text_from_html(nodes[s].content), text_from_html(after))

\* the text of s differs from the text of the content after
TextChanges(s, after) == text_from_html(nodes[s].content) # text_from_html(after)

\* C15: in every reachable state, for every new content and every edit script
\* of the diff, update_annotations stores (-1, -1) for every annotation it
\* selects (end offset >= first changed offset) whose adjusted start equals its
\* adjusted end, and an annotation stored as (-1, -1) is not among the valid()
\* annotations afterwards.
C15_DeletedSpanInvalidated ==
    \A s \in Annotated : \A after \in Contents(MaxText + 1) :
       LET qs   == related_annotations(nodes, s)
           outs == update_annotations(qs, nodes[s].content, after)
       IN TextChanges(s, after) =>
          \A script \in ScriptsTo(s, after) :
             LET o == UpdateWith(qs, script)
             IN /\ o \in outs
                /\ \A k \in DOMAIN qs :
                      /\ (/\ Selected(qs[k], get_first_delta_offset(script))
                          /\ adjust_offset(script, qs[k].global_start_offset)
                               = adjust_offset(script, qs[k].global_end_offset))
                         => (o.annots[k] = Invalidated /\ k \in o.written)
                      /\ o.annots[k] = Invalidated => k \notin valid(o.annots)

\* a save has deleted the text of one annotation and kept the text of the other:
\* the first is stored as (-1, -1) and is no longer related, the second is
C15_Witness ==
    /\ result.op = "save_content"
    /\ \E s \in Annotated : \E i, j \in DOMAIN nodes[s].annotations :
          /\ nodes[s].annotations[i] = Invalidated
          /\ nodes[s].annotations[j] # Invalidated
          /\ <<s, i>> \notin DOMAIN related_annotations(nodes, s)
          /\ <<s, j>> \in DOMAIN related_annotations(nodes, s)

\* C18: in every reachable state, for every new content and every edit script
\* of the diff, adjust_offset is monotone over the offsets of the text before
\* (i <= j implies adjust_offset(i) <= adjust_offset(j)), and in every outcome
\* of update_annotations no annotation has its start after its end.
C18_AdjustOffsetMonotone ==
    \A s \in Annotated : \A after \in Contents(MaxText + 1) :
       /\ \A script \in ScriptsTo(s, after) :
             \A i, j \in 0..Len(text_from_html(nodes[s].content)) :
                i <= j => adjust_offset(script, i) <= adjust_offset(script, j)
       /\ \A o \in update_annotations(related_annotations(nodes, s), nodes[s].content, after) :
             \A k \in DOMAIN o.annots :
                o.annots[k].global_start_offset <= o.annots[k].global_end_offset

\* a text has been saved, and a further edit that both deletes and inserts
\* maps two different offsets to one and moves an annotation that stays valid
C18_Witness ==
    /\ result.op = "save_content"
    /\ \E s \in Annotated : \E after \in Contents(MaxText + 1) :
          \E script \in ScriptsTo(s, after) :
             LET qs == related_annotations(nodes, s)
                 o  == UpdateWith(qs, script)
             IN /\ \E x, y \in DOMAIN script : script[x] = "D" /\ script[y] = "I"
                /\ \E i, j \in 0..Len(text_from_html(nodes[s].content)) :
                      i < j /\ adjust_offset(script, i) = adjust_offset(script, j)
                /\ \E k \in o.written :
                      /\ o.annots[k] # Invalidated
                      /\ o.annots[k].global_start_offset < o.annots[k].global_end_offset

\* C19: in every reachable state and for every new content, update_annotations
\* writes nothing and changes nothing when the text is the same; otherwise, for
\* every edit script of the diff, it leaves as it is and does not write every
\* annotation whose end offset is lower than the first changed offset, and of
\* the others it writes exactly those whose adjusted offsets differ from the
\* stored ones, leaving the rest as they are.
C19_WritesOnlyChanged ==
    \A s \in Annotated : \A after \in Contents(MaxText + 1) :
       LET qs   == related_annotations(nodes, s)
           outs == update_annotations(qs, nodes[s].content, after)
       IN IF ~TextChanges(s, after)
          THEN \A o \in outs : o.written = {} /\ o.annots = qs
          ELSE \A script \in ScriptsTo(s, after) :
                  LET o     == UpdateWith(qs, script)
                      first == get_first_delta_offset(script)
                  IN /\ o \in outs
                     /\ \A k \in DOMAIN qs :
                           /\ qs[k].global_end_offset < first => k \notin o.written
                           /\ k \in o.written <=>
                                 /\ qs[k].global_end_offset >= first
                                 /\ AdjustedSpan(script, qs[k]) # qs[k]
                           /\ k \notin o.written => o.annots[k] = qs[k]
                           /\ k \in o.written => o.annots[k] # qs[k]

\* a text has been saved; one further edit of it leaves an annotation before the
\* change out and writes another, a second one writes nothing for an annotation
\* it selects, and a change of markup alone writes nothing
C19_Witness ==
    /\ result.op = "save_content"
    /\ \E s \in Annotated :
          LET qs == related_annotations(nodes, s)
          IN /\ \E after \in Contents(MaxText + 1) : \E script \in ScriptsTo(s, after) :
                   /\ TextChanges(s, after)
                   /\ \E k \in DOMAIN qs : ~Selected(qs[k], get_first_delta_offset(script))
                   /\ UpdateWith(qs, script).written # {}
             /\ \E after \in Contents(MaxText + 1) : \E script \in ScriptsTo(s, after) :
                   /\ TextChanges(s, after)
                   /\ \E k \in DOMAIN qs :
                         /\ Selected(qs[k], get_first_delta_offset(script))
                         /\ k \notin UpdateWith(qs, script).written
             /\ \E after \in Contents(MaxText + 1) :
                   /\ after # nodes[s].content
                   /\ ~TextChanges(s, after)
                   /\ qs # <<>>

\* "Keep foo keep baz buzz"
KeepFoo ==
    <<"K", "e", "e", "p", " ", "f", "o", "o", " ", "k", "e", "e", "p", " ",
      "b", "a", "z", " ", "b", "u", "z", "z">>

FOO == <<"F", "O", "O">>

\* content with the tokens w put in at offset p, and with k tokens taken out
\* at offset p
Inserted(content, p, w) ==
    SubSeq(content, 1, p) \o w \o SubSeq(content, p + 1, Len(content))

Removed(content, p, k) ==
    SubSeq(content, 1, p) \o SubSeq(content, p + k + 1, Len(content))

\* the offsets at which the editor of the example changes the text: the start,
\* the middle and the end of "foo"
ShiftOffsets == {5, 6, 8}

\* A text block with the content "Keep foo keep baz buzz", annotated over "foo"
\* (5-8) and over the second "keep" (9-13)
InitShift ==
    /\ nodes = (1 :> [NodeRow(1, <<1>>, <<1>>, TRUE, "TextBlock", 1, <<>>)
                         EXCEPT !.content = KeepFoo,
                                !.annotations = (1 :> Offsets(5, 8)) @@ (2 :> Offsets(9, 13))])
    /\ casebooks = (1 :> CasebookRow(PRIVATELY_EDITING, <<>>, {1}))
    /\ edit_log = <<>>
    /\ seq = [casebook |-> 2, node |-> 2, textblock |-> 2, link |-> 1]
    /\ edits = 0
    /\ result = NoCall
    /\ calls = NoCalls

\* an editor puts w into the text of node s at offset p and saves
InsertText(s, p, w) ==
    /\ s \in DOMAIN nodes
    /\ edits < MaxEdits
    /\ p <= Len(nodes[s].content)
    /\ \E ns2 \in AnnotatedModelSave(nodes, s, Inserted(nodes[s].content, p, w)) :
          nodes' = ns2
    /\ edits' = edits + 1
    /\ result' = [op |-> "insert_text", err |-> ""]
    /\ UNCHANGED <<casebooks, edit_log, seq, calls>>

\* an editor takes k characters out of the text of node s at offset p and saves
DeleteText(s, p, k) ==
    /\ s \in DOMAIN nodes
    /\ edits < MaxEdits
    /\ p + k <= Len(nodes[s].content)
    /\ \E ns2 \in AnnotatedModelSave(nodes, s, Removed(nodes[s].content, p, k)) :
          nodes' = ns2
    /\ edits' = edits + 1
    /\ result' = [op |-> "delete_text", err |-> ""]
    /\ UNCHANGED <<casebooks, edit_log, seq, calls>>

NextShift ==
    \/ \E p \in ShiftOffsets : InsertText(1, p, FOO)
    \/ \E p \in ShiftOffsets : DeleteText(1, p, 3)

SpecShift == InitShift /\ [][NextShift]_vars

\* words of characters that occur in no text of the example, so that the diff
\* of a text and the text with the word inserted has one edit script
FreshWords == {<<"X">>, <<"X", "Y">>}

\* the length of the span of annotation a
SpanLen(a) == a.global_end_offset - a.global_start_offset

\* C16: saving "Keep FOOfoo keep baz buzz" over "Keep foo keep baz buzz" moves an
\* annotation at offsets 5-8 to offsets 8-11; and in every reachable state, a
\* word inserted exactly at the start of a valid annotation moves its start and
\* its end forward by the length of the word, leaving its length as it was.
C16_InsertBeforeShifts ==
    \A s \in Annotated :
       /\ text_from_html(nodes[s].content) = KeepFoo =>
             \A ns2 \in AnnotatedModelSave(nodes, s, Inserted(KeepFoo, 5, FOO)) :
                \A i \in DOMAIN nodes[s].annotations :
                   nodes[s].annotations[i] = Offsets(5, 8)
                      => ns2[s].annotations[i] = Offsets(8, 11)
       /\ \A i \in valid(nodes[s].annotations) : \A w \in FreshWords :
             LET a == nodes[s].annotations[i]
             IN \A ns2 \in AnnotatedModelSave(nodes, s,
                               Inserted(nodes[s].content, a.global_start_offset, w)) :
                   /\ ns2[s].annotations[i] =
                         Offsets(a.global_start_offset + Len(w), a.global_end_offset + Len(w))
                   /\ SpanLen(ns2[s].annotations[i]) = SpanLen(a)

\* the edit of the example has been saved: the text is "Keep FOOfoo keep baz
\* buzz" and the annotation that was at 5-8 is at 8-11
C16_Witness ==
    /\ result.op = "insert_text"
    /\ edits = 1
    /\ nodes[1].content = Inserted(KeepFoo, 5, FOO)
    /\ nodes[1].annotations[1] = Offsets(8, 11)

\* the rows after the word w is inserted at offset p of the text of s and saved
AfterInsert(s, p, w) == AnnotatedModelSave(nodes, s, Inserted(nodes[s].content, p, w))

\* C17 as stated: a single insertion at offset p grows the span [s, e) of an
\* annotation by the inserted length when s < p < e and leaves its length
\* unchanged otherwise, the boundary cases p = s and p = e included.
C17_GrowsOnlyStrictlyInside ==
    \A s \in Annotated : \A p \in 0..Len(nodes[s].content) : \A w \in FreshWords :
       \A ns2 \in AfterInsert(s, p, w) : \A i \in valid(nodes[s].annotations) :
          LET a   == nodes[s].annotations[i]
              new == ns2[s].annotations[i]
          IN /\ new # Invalidated
             /\ SpanLen(new) = IF a.global_start_offset < p /\ p < a.global_end_offset
                               THEN SpanLen(a) + Len(w) ELSE SpanLen(a)

\* C17: a single insertion at offset p moves the span [s, e) of an annotation
\* forward by the inserted length when p <= s, grows it by the inserted length,
\* its start kept, when s < p <= e (an insertion immediately after the span is
\* taken into it), and leaves it as it was when p > e.
C17_GrowsInsideAndAtEnd ==
    \A s \in Annotated : \A p \in 0..Len(nodes[s].content) : \A w \in FreshWords :
       \A ns2 \in AfterInsert(s, p, w) : \A i \in valid(nodes[s].annotations) :
          LET a   == nodes[s].annotations[i]
              new == ns2[s].annotations[i]
          IN new = IF p <= a.global_start_offset
                   THEN Offsets(a.global_start_offset + Len(w), a.global_end_offset + Len(w))
                   ELSE IF p <= a.global_end_offset
                   THEN Offsets(a.global_start_offset, a.global_end_offset + Len(w))
                   ELSE a

\* "FOO" has been inserted immediately after "foo" and saved: the annotation
\* that was at 5-8 is at 5-11, and the one after it has moved from 9-13 to 12-16
C17_Witness ==
    /\ result.op = "insert_text"
    /\ edits = 1
    /\ nodes[1].content = Inserted(KeepFoo, 8, FOO)
    /\ nodes[1].annotations[1] = Offsets(5, 11)
    /\ nodes[1].annotations[2] = Offsets(12, 16)

\* C20: no step deletes or creates an annotation of a row, and an annotation
\* stored as (-1, -1) is stored as (-1, -1) after every step.
C20_AnnotationsPersist ==
    [][\A s \in DOMAIN nodes :
          /\ s \in DOMAIN nodes'
          /\ DOMAIN nodes'[s].annotations = DOMAIN nodes[s].annotations
          /\ \A i \in DOMAIN nodes[s].annotations :
                nodes[s].annotations[i] = Invalidated
                   => nodes'[s].annotations[i] = Invalidated]_vars

\* "foo" has been deleted and then "FOO" inserted one character later: the
\* annotation that was over "foo" still exists and still holds (-1, -1), the
\* other one has followed the text
C20_Witness ==
    /\ edits = 2
    /\ nodes[1].content = Inserted(Removed(KeepFoo, 5, 3), 6, FOO)
    /\ DOMAIN nodes[1].annotations = {1, 2}
    /\ nodes[1].annotations[1] = Invalidated
    /\ nodes[1].annotations[2] = Offsets(9, 13)

(***************************************************************************)
(* Cloning: Casebook.clone, ContentNode.clone_to, clone_nodes              *)
(***************************************************************************)
MaxNodes == 7        \* clones are made while node ids stay within this bound

\* the outcomes of ns[s].clone_to(target); as_section: the instance was read
\* through the Section proxy ("type(self) is Section"), so its contents are
\* cloned with it
clone_to(db, s, target, as_section) ==
    UNION {{[err |-> o.err, cbs |-> db.cbs, ns |-> o.ns, log |-> db.log, seq |-> o.seq] :
               o \in clone_nodes(db.ns, db.seq, <<s>> \o contents, target, TRUE)} :
           contents \in IF as_section THEN OrderedBy(db.ns, NodeContents(db.ns, s))
                        ELSE {<<>>}}

\* Casebook 1 holds a section at [1] with a text block at [1,1] and a section at
\* [1,2], which holds a legal document at [1,2,1], and a link at [2]; casebook 2
\* is empty.
InitClone ==
    /\ nodes = (1 :> NodeRow(1, <<1>>, <<1>>, TRUE, "Section", NoneId, <<>>))
            @@ (2 :> NodeRow(1, <<1, 1>>, <<1, 1>>, TRUE, "TextBlock", 1, <<>>))
            @@ (3 :> NodeRow(1, <<1, 2>>, <<1, 2>>, TRUE, "Section", NoneId, <<>>))
            @@ (4 :> NodeRow(1, <<1, 2, 1>>, <<1, 2, 1>>, TRUE, "LegalDocument", 1, <<>>))
            @@ (5 :> NodeRow(1, <<2>>, <<2>>, TRUE, "Link", 1, <<>>))
    /\ casebooks = (1 :> CasebookRow(PRIVATELY_EDITING, <<>>, {1}))
                @@ (2 :> CasebookRow(PRIVATELY_EDITING, <<>>, {2}))
    /\ edit_log = <<>>
    /\ seq = [casebook |-> 3, node |-> 6, textblock |-> 2, link |-> 2]
    /\ edits = 0
    /\ result = NoCall
    /\ calls = NoCalls

\* casebook c's clone(current_user, draft_mode)
Clone(c, current_user, draft_mode) ==
    /\ c \in DOMAIN casebooks
    /\ seq.casebook <= MaxCasebooks
    /\ seq.node + Cardinality(CasebookContents(nodes, c)) <= MaxNodes + 1
    /\ \E o \in clone(CurrentDb, c, current_user, draft_mode) : Commit("clone", o)

\* node s's clone_to(target)
CloneTo(s, target, as_section) ==
    /\ s \in DOMAIN nodes
    /\ target \in DOMAIN casebooks
    /\ seq.node + 1 + (IF as_section THEN Cardinality(NodeContents(nodes, s)) ELSE 0)
           <= MaxNodes + 1
    /\ \E o \in clone_to(CurrentDb, s, target, as_section) : Commit("clone_to", o)

\* any sequence of clones of casebooks and of nodes
NextClone ==
    \/ \E c \in DOMAIN casebooks : \E u \in Users \cup {NoneId} : \E dm \in BOOLEAN :
          Clone(c, u, dm)
    \/ \E s \in DOMAIN nodes : \E c \in DOMAIN casebooks : \E b \in BOOLEAN :
          CloneTo(s, c, b)

SpecClone == InitClone /\ [][NextClone]_vars

\* the clone calls that can be made now: the nodes each is asked to clone and
\* its outcomes
CloneCalls ==
    {[sources |-> {s} \cup (IF b THEN NodeContents(nodes, s) ELSE {}),
      out     |-> clone_to(CurrentDb, s, t, b)] :
         s \in DOMAIN nodes, t \in DOMAIN casebooks, b \in BOOLEAN}
    \cup {[sources |-> CasebookContents(nodes, c),
           out     |-> clone(CurrentDb, c, u, dm)] :
              c \in DOMAIN casebooks, u \in Users, dm \in BOOLEAN}

\* the rows outcome o has created
Created(o) == DOMAIN o.ns \ DOMAIN nodes

\* o has created exactly one row per source node, with the source's provenance
\* followed by the source's id
OneClonePerSource(o, sources) ==
    /\ Cardinality(Created(o)) = Cardinality(sources)
    /\ \A n \in sources : \E m \in Created(o) :
          o.ns[m].provenance = Append(nodes[n].provenance, n)

SameBody(ns, a, b) ==
    ns[a].resource_type = ns[b].resource_type /\ ns[a].resource_id = ns[b].resource_id

\* the body of clone m is not the body of its source, and saving it with new
\* content leaves the content read through the source as it was
OwnBody(o, m) ==
    LET src == Last(o.ns[m].provenance)
    IN /\ ~SameBody(o.ns, m, src)
       /\ \A v \in {7, 8} : SaveBody(o.ns, m, v)[src].content = o.ns[src].content

\* C12 as stated: a clone of n nodes creates n rows, each with its source's
\* provenance followed by the source's id, and no clone of a resource shares its
\* body with its source.
C12_NoBodyShared ==
    \A call \in CloneCalls : \A o \in call.out :
        o.err = "" =>
            /\ OneClonePerSource(o, call.sources)
            /\ \A m \in Created(o) : is_resource(o.ns[m]) => OwnBody(o, m)

\* C12 as amended: a clone of n nodes creates n rows, each with its source's
\* provenance followed by the source's id; the clone of a TextBlock or Link
\* node refers to a new body that no other row refers to, so saving it leaves
\* the source's content unchanged; the clone of a LegalDocument node refers to
\* the body of its source, and the clone of a section has no body.
C12_OnlyLegalDocumentShared ==
    \A call \in CloneCalls : \A o \in call.out :
        o.err = "" =>
            /\ OneClonePerSource(o, call.sources)
            /\ \A m \in Created(o) :
                  LET src == Last(o.ns[m].provenance)
                  IN /\ o.ns[m].resource_type = o.ns[src].resource_type
                     /\ o.ns[m].resource_type \in {"TextBlock", "Link"} =>
                           /\ OwnBody(o, m)
                           /\ \A x \in DOMAIN o.ns \ {m} : ~SameBody(o.ns, m, x)
                     /\ o.ns[m].resource_type = "LegalDocument" =>
                           SameBody(o.ns, m, src)
                     /\ o.ns[m].resource_type = "Section" =>
                           o.ns[m].resource_id = NoneId

\* C12 witness: clone_to has cloned the text block and the legal document of
\* casebook 1 into casebook 2; the text block's clone has a body of its own and
\* the legal document's clone has the body of its source.
C12_Witness ==
    /\ result = [op |-> "clone_to", err |-> ""]
    /\ \E m, d \in CasebookContents(nodes, 2) :
          /\ nodes[m].provenance = <<2>>
          /\ nodes[m].resource_type = "TextBlock"
          /\ ~SameBody(nodes, m, 2)
          /\ nodes[d].provenance = <<4>>
          /\ nodes[d].resource_type = "LegalDocument"
          /\ SameBody(nodes, d, 4)
          /\ SaveBody(nodes, d, 7)[4].content = 7

\* the row outcome o has created for source node n
CloneOf(o, n) ==
    CHOOSE m \in Created(o) : o.ns[m].provenance = Append(nodes[n].provenance, n)

\* C13: clone_to (clone_nodes with append=True), for source nodes that have a
\* path, into a target whose tree satisfies the path invariant: the call
\* returns, every cloned node is placed after all top-level nodes already in
\* the target, the clones are in the order and nesting of their sources, the
\* paths of the nodes already in the target are unchanged and the target's
\* tree satisfies the path invariant.
C13_AppendAfterExisting ==
    \A s \in DOMAIN nodes : \A t \in DOMAIN casebooks : \A b \in BOOLEAN :
        (ValidTree(nodes, t) /\ nodes[s].ordinals # <<>>) =>
            LET sources == {s} \cup (IF b THEN NodeContents(nodes, s) ELSE {})
                old     == CasebookContents(nodes, t)
            IN \A o \in clone_to(CurrentDb, s, t, b) :
                  /\ o.err = ""
                  /\ OneClonePerSource(o, sources)
                  /\ CasebookContents(o.ns, t) = old \cup Created(o)
                  /\ ValidTree(o.ns, t)
                  /\ \A n \in old : o.ns[n].ordinals = nodes[n].ordinals
                  /\ \A m \in Created(o) : \A n \in old :
                        o.ns[m].ordinals[1] > nodes[n].ordinals[1]
                  /\ \A x, y \in sources :
                        LET cx == o.ns[CloneOf(o, x)].ordinals
                            cy == o.ns[CloneOf(o, y)].ordinals
                        IN /\ LexLess(nodes[x].ordinals, nodes[y].ordinals)
                                 => LexLess(cx, cy)
                           /\ content_tree__is_descendant_of(nodes, x, y)
                                 <=> Take(cx, Len(cy)) = cy

\* C13 witness: clone_to has appended the section at [1,2] of casebook 1 and its
\* legal document to casebook 1 itself: the clones are stored at [3] and [3,1],
\* after the nodes at [1] and [2], which keep their paths.
C13_Witness ==
    /\ result = [op |-> "clone_to", err |-> ""]
    /\ ValidTree(nodes, 1)
    /\ nodes[1].ordinals = <<1>> /\ nodes[5].ordinals = <<2>>
    /\ \E m, d \in CasebookContents(nodes, 1) :
          /\ nodes[m].provenance = <<3>> /\ nodes[m].ordinals = <<3>>
          /\ nodes[d].provenance = <<4>> /\ nodes[d].ordinals = <<3, 1>>

(***************************************************************************)
(* PREVIOUS_SAVE                                                           *)
(***************************************************************************)
\* C11: once a casebook's stored state is PREVIOUS_SAVE, no step of
\* transition_to, archive, unarchive, depublish, make_draft or merge_draft
\* changes it.
C11_PreviousSaveTerminal ==
    [][\A c \in DOMAIN casebooks :
          casebooks[c].state = PREVIOUS_SAVE => casebooks'[c].state = PREVIOUS_SAVE]_vars

(***************************************************************************)
(* Drafts and the transition table                                         *)
(***************************************************************************)
\* C29: in every state reached through make_draft, merge_draft, transition_to,
\* archive, unarchive and depublish, a casebook's draft reference, when set,
\* names a casebook in DRAFT state, a REVISING casebook has its draft reference
\* set, and transition_to(PUBLISHED) on a REVISING casebook returns and leaves it
\* PUBLISHED.
C29_DraftReferenceNamesDraft ==
    \A c \in DOMAIN casebooks :
       /\ has_draft(casebooks[c]) =>
             /\ casebooks[c].draft \in DOMAIN casebooks
             /\ casebooks[casebooks[c].draft].state = DRAFT
       /\ casebooks[c].state = REVISING =>
             /\ has_draft(casebooks[c])
             /\ \A o \in transition_to(CurrentDb, c, PUBLISHED) :
                   o.err = "" /\ o.cbs[c].state = PUBLISHED

\* C30: every change of a casebook's stored state made by a step of
\* transition_to, archive, unarchive, depublish, make_draft or merge_draft is a
\* (current, target) pair that can_transition_to allows.
C30_StateChangesFollowTable ==
    [][\A c \in DOMAIN casebooks :
          casebooks'[c].state # casebooks[c].state
             => can_transition_to(casebooks[c], casebooks'[c].state)]_vars

(***************************************************************************)
(* make_draft called by two requests                                       *)
(* A request first gets the casebook from the database; make_draft then    *)
(* runs on that instance: transition_to(REVISING) and save(), which write  *)
(* the instance's fields, then clone(draft_mode=True) in a transaction of  *)
(* its own.  calls[p] = [op |-> "make_draft", pc |-> the next step, self   *)
(* |-> the casebook's id, row |-> the instance's fields, before |-> the    *)
(* state stored when the instance was read].                               *)
(***************************************************************************)
\* request p gets casebook c: Casebook.objects.get(...)
FetchCasebook(p, c) ==
    /\ calls[p] = Idle
    /\ c \in DOMAIN casebooks
    /\ seq.casebook <= MaxCasebooks
    /\ calls' = [calls EXCEPT ![p] =
                    [op |-> "make_draft", pc |-> "transition_to", self |-> c,
                     row |-> casebooks[c], before |-> casebooks[c].state]]
    /\ UNCHANGED <<nodes, casebooks, edit_log, seq, edits, result>>

\* make_draft: "self.transition_to(Casebook.LifeCycle.REVISING); self.save()"
MakeDraftTransition(p) ==
    /\ calls[p].op = "make_draft"
    /\ calls[p].pc = "transition_to"
    /\ LET c   == calls[p].self
           row == calls[p].row
       IN IF ~TransitionChecked(row, REVISING)
          THEN /\ result' = [op |-> "make_draft",
                             err |-> "Cannot transition to desired state"]
               /\ calls' = [calls EXCEPT ![p] = Idle]
               /\ UNCHANGED casebooks
          ELSE /\ casebooks' = [casebooks EXCEPT ![c] = [row EXCEPT !.state = REVISING]]
               /\ calls' = [calls EXCEPT ![p].pc = "clone",
                                         ![p].row = [row EXCEPT !.state = REVISING]]
               /\ UNCHANGED result
    /\ UNCHANGED <<nodes, edit_log, seq, edits>>

\* make_draft: "return self.clone(draft_mode=True)", the transaction commits
MakeDraftClone(p) ==
    /\ calls[p].op = "make_draft"
    /\ calls[p].pc = "clone"
    /\ LET c  == calls[p].self
           db == Db([casebooks EXCEPT ![c] = calls[p].row], nodes, edit_log, seq)
       IN \E o \in clone(db, c, NoneId, TRUE) :
             /\ casebooks' = o.cbs
             /\ nodes' = o.ns
             /\ edit_log' = o.log
             /\ seq' = o.seq
             /\ result' = [op |-> "make_draft", err |-> o.err]
    /\ calls' = [calls EXCEPT ![p] = Idle]
    /\ UNCHANGED edits

\* make_draft: an exception inside clone rolls the clone's transaction back and
\* leaves make_draft
MakeDraftCloneFails(p) ==
    /\ calls[p].op = "make_draft"
    /\ calls[p].pc = "clone"
    /\ result' = [op |-> "make_draft", err |-> "DatabaseError"]
    /\ calls' = [calls EXCEPT ![p] = Idle]
    /\ UNCHANGED <<nodes, casebooks, edit_log, seq, edits>>

NextRace ==
    \/ \E p \in Procs : \E c \in DOMAIN casebooks : FetchCasebook(p, c)
    \/ \E p \in Procs : MakeDraftTransition(p)
    \/ \E p \in Procs : MakeDraftClone(p)
    \/ \E p \in Procs : MakeDraftCloneFails(p)

SpecRace == InitLife /\ [][NextRace]_vars

\* the casebooks in DRAFT state derived from casebook c
DraftsOf(c) ==
    {d \in DOMAIN casebooks :
        /\ casebooks[d].state = DRAFT
        /\ casebooks[d].provenance # <<>>
        /\ Last(casebooks[d].provenance) = c}

\* C31: once the make_draft calls of two requests on the same PUBLISHED casebook
\* have ended, however they were interleaved, at most one casebook in DRAFT
\* state derived from it exists and the casebook's draft reference names it.
C31_OneDraftPerCasebook ==
    (\A p \in Procs : calls[p] = Idle) =>
       \A c \in DOMAIN casebooks :
          /\ Cardinality(DraftsOf(c)) <= 1
          /\ \A d \in DraftsOf(c) : casebooks[c].draft = d

\* C32: a make_draft call that ends with an error leaves the casebook stored in
\* the state it had before the call, never in REVISING state without a draft.
C32_MakeDraftAllOrNothing ==
    [][\A p \in Procs :
          (calls[p].op = "make_draft" /\ calls'[p] = Idle /\ result'.err # "")
             => /\ casebooks'[calls[p].self].state = calls[p].before
                /\ ~(casebooks'[calls[p].self].state = REVISING
                        /\ ~has_draft(casebooks'[calls[p].self]))]_vars

(***************************************************************************)
(* A draft merged as it was made                                           *)
(***************************************************************************)
\* the node of draft d that outcome o of make_draft created as the clone of n
CloneIn(o, d, n) ==
    {m \in CasebookContents(o.ns, d) :
        o.ns[m].provenance # <<>> /\ Last(o.ns[m].provenance) = n}

\* C33: make_draft() on a PUBLISHED casebook followed at once by merge_draft()
\* of the draft returns, records no edit-log entry and leaves the casebook with
\* as many nodes as before, the clone of each former node being stored at that
\* node's ordinals with that node's former provenance.
C33_UneditedDraftMergesUnchanged ==
    \A c \in {x \in DOMAIN casebooks : casebooks[x].state = PUBLISHED} :
       \A o1 \in make_draft(CurrentDb, c) :
          /\ o1.err = ""
          /\ LET d == o1.cbs[c].draft
             IN \A o2 \in merge_draft(Db(o1.cbs, o1.ns, o1.log, o1.seq), d) :
                   /\ o2.err = ""
                   /\ o2.log = edit_log
                   /\ o2.cbs[c].state = PUBLISHED
                   /\ Cardinality(CasebookContents(o2.ns, c)) =
                         Cardinality(CasebookContents(nodes, c))
                   /\ \A n \in CasebookContents(nodes, c) :
                         /\ Cardinality(CloneIn(o1, d, n)) = 1
                         /\ \A m \in CloneIn(o1, d, n) :
                               /\ o2.ns[m].casebook = c
                               /\ o2.ns[m].ordinals = nodes[n].ordinals
                               /\ o2.ns[m].provenance = nodes[n].provenance
                               /\ o2.ns[n].casebook = d

\* the draft of casebook 1 was merged as it was made: no entry is logged and
\* the clones 3 and 4 stand where nodes 1 and 2 stood, with their provenance
C33_Witness ==
    /\ result = [op |-> "merge_draft", err |-> ""]
    /\ edits = 0
    /\ edit_log = <<>>
    /\ casebooks[1].state = PUBLISHED
    /\ CasebookContents(nodes, 1) = {3, 4}
    /\ nodes[3].ordinals = <<1>> /\ nodes[3].provenance = <<>>
    /\ nodes[4].ordinals = <<2>> /\ nodes[4].provenance = <<>>

(***************************************************************************)
(* restore_from_save                                                       *)
(* An outcome is an outcome of clone with deleted |-> the TextBlock and    *)
(* Link objects the call has deleted.                                      *)
(***************************************************************************)
\* Casebook._delete_related_links_and_text_blocks: the Link and TextBlock
\* objects of the rows of casebook c
CasebookDeletedBodies(ns, c) ==
    {Body(ns[n]) : n \in {x \in CasebookContents(ns, c) :
                             /\ ns[x].resource_id # NoneId
                             /\ ns[x].resource_type \in {"Link", "TextBlock"}}}

\* restore_from_save: "for ccn in cloned_content_nodes: ccn.provenance.pop()"
PopProvenance(ns, created) ==
    [n \in DOMAIN ns |->
        IF n \in created THEN [ns[n] EXCEPT !.provenance = ButLast(@)] ELSE ns[n]]

\* the outcomes of casebook s's restore_from_save()
restore_from_save(db, s) ==
    LET savepoint == db.cbs[s]
        failed(e) == {[Raises(db, e) EXCEPT !.err = e] @@ [deleted |-> {}]}
    IN IF savepoint.state # PREVIOUS_SAVE THEN failed("Bad restore state")
       ELSE IF savepoint.provenance = <<>> THEN failed("AttributeError")
       ELSE IF Last(savepoint.provenance) \notin DOMAIN db.cbs THEN failed("DoesNotExist")
       ELSE LET current_casebook == Last(savepoint.provenance)
                deleted == CasebookDeletedBodies(db.ns, current_casebook)
            IN UNION {{[err |-> o.err, cbs |-> db.cbs,
                        ns |-> PopProvenance(o.ns, DOMAIN o.ns \ DOMAIN db.ns),
                        log |-> db.log, seq |-> o.seq, deleted |-> deleted] :
                          o \in clone_nodes(db.ns, db.seq, order, current_casebook, FALSE)} :
                      order \in OrderedBy(db.ns, CasebookContents(db.ns, s))}

\* casebook c's restore_from_save(); the caller is told which objects are gone
RestoreFromSave(c) ==
    /\ c \in DOMAIN casebooks
    /\ seq.node <= MaxNodes
    /\ \E o \in restore_from_save(CurrentDb, c) :
          /\ casebooks' = o.cbs
          /\ nodes' = o.ns
          /\ edit_log' = o.log
          /\ seq' = o.seq
          /\ result' = [op |-> "restore_from_save", err |-> o.err, self |-> c,
                        deleted |-> o.deleted]
    /\ UNCHANGED <<edits, calls>>

\* drafts are made, get nodes added and are merged, and earlier saves are
\* restored
NextRestore ==
    \/ \E c \in DOMAIN casebooks : MakeDraft(c)
    \/ \E c \in DOMAIN casebooks : MergeDraft(c)
    \/ \E c \in DOMAIN casebooks : \E rtype \in {"Section", "TextBlock"} : AddNode(c, rtype)
    \/ \E c \in DOMAIN casebooks : RestoreFromSave(c)

SpecRestore == InitLife /\ [][NextRestore]_vars

\* C34: restore_from_save() on a casebook not in PREVIOUS_SAVE state raises and
\* changes nothing; on a PREVIOUS_SAVE casebook it leaves the current casebook
\* (the last id of the save's provenance) with exactly one node per node of the
\* save, at the same ordinals, no two of its nodes sharing an ordinal path, and
\* every resource node of it referring to a body that has not been deleted.
C34_RestoreReplacesContents ==
    \A s \in DOMAIN casebooks :
       \A o \in restore_from_save(CurrentDb, s) :
          IF casebooks[s].state # PREVIOUS_SAVE
          THEN o.err # "" /\ o.ns = nodes /\ o.cbs = casebooks /\ o.deleted = {}
          ELSE o.err = "" =>
             LET current == Last(casebooks[s].provenance)
                 held    == CasebookContents(o.ns, current)
                 saved   == CasebookContents(nodes, s)
             IN /\ Cardinality(held) = Cardinality(saved)
                /\ \A n \in saved :
                      Cardinality({m \in held : o.ns[m].ordinals = nodes[n].ordinals}) = 1
                /\ \A m1, m2 \in held :
                      m1 # m2 => o.ns[m1].ordinals # o.ns[m2].ordinals
                /\ \A m \in held :
                      is_resource(o.ns[m]) => Body(o.ns[m]) \notin o.deleted

(***************************************************************************)
(* depublish                                                               *)
(***************************************************************************)
\* C35: depublish() on a PUBLISHED or REVISING casebook returns and leaves it
\* stored with the state value unarchive() stores, PRIVATELY_EDITING, so that
\* in_edit_state holds afterwards; on a casebook that is not public it raises
\* and changes nothing.
C35_DepublishStoresPrivatelyEditing ==
    \A c \in DOMAIN casebooks :
       \A o \in depublish(CurrentDb, c) :
          IF is_public(casebooks[c])
          THEN /\ o.err = ""
               /\ \A u \in unarchive(CurrentDb, c) : o.cbs[c].state = u.cbs[c].state
               /\ o.cbs[c].state = PRIVATELY_EDITING
               /\ in_edit_state(o.cbs[c])
          ELSE /\ o.err # ""
               /\ o.cbs = casebooks
               /\ o.ns = nodes

(***************************************************************************)
(* content_tree__repair of a casebook whose stored paths are broken        *)
(***************************************************************************)
MaxDepth == 3        \* longest stored path of a broken tree

\* the paths a row of a broken tree can be stored with
StoredPaths == UNION {[1..k -> 1..MaxOrd] : k \in 1..MaxDepth}

\* Casebook 1 holds a section, a text block and a second section, each stored
\* with any path: paths with gaps, without a parent, or shared
InitBroken ==
    /\ \E p1, p2, p3 \in StoredPaths :
          nodes = (1 :> NodeRow(1, p1, p1, TRUE, "Section", NoneId, <<>>))
               @@ (2 :> NodeRow(1, p2, p2, TRUE, "TextBlock", 1, <<>>))
               @@ (3 :> NodeRow(1, p3, p3, TRUE, "Section", NoneId, <<>>))
    /\ casebooks = (1 :> CasebookRow(PRIVATELY_EDITING, <<>>, {1}))
    /\ edit_log = <<>>
    /\ seq = [casebook |-> 2, node |-> 4, textblock |-> 2, link |-> 1]
    /\ edits = 0
    /\ result = NoCall
    /\ calls = NoCalls

\* casebook.content_tree__repair(); before is the path each row had
RepairCasebook(c) ==
    /\ c \in DOMAIN casebooks
    /\ \E ns2 \in content_tree__repair(nodes, c, RootId) :
          /\ nodes' = ns2
          /\ result' = [op |-> "repair", err |-> "",
                        before |-> [n \in DOMAIN nodes |-> nodes[n].ordinals]]
    /\ UNCHANGED <<casebooks, edit_log, seq, edits, calls>>

NextBroken ==
    \/ \E c \in DOMAIN casebooks : RepairCasebook(c)
    \/ \E s \in DOMAIN nodes : Delete(s)

SpecBroken == InitBroken /\ [][NextBroken]_vars

\* the rows of n's casebook stored at a proper prefix of n's path
StoredAncestors(ns, n) ==
    {a \in CasebookContents(ns, ns[n].casebook) :
        /\ Len(ns[a].ordinals) < Len(ns[n].ordinals)
        /\ Take(ns[n].ordinals, Len(ns[a].ordinals)) = ns[a].ordinals}

\* no two rows of casebook c share a path
DistinctPaths(ns, c) ==
    \A n, m \in CasebookContents(ns, c) : n # m => ns[n].ordinals # ns[m].ordinals

\* C36: content_tree__repair of a casebook whose rows have distinct paths, with
\* gaps or without stored parents, stores a tree that satisfies the path
\* invariant, in which every row is the child of the row stored at the longest
\* proper prefix of its old path (a top-level row when there was none) and the
\* rows are in the lexicographic order of their old paths.
C36_RepairAttachesToNearestAncestor ==
    \A c \in {x \in DOMAIN casebooks : DistinctPaths(nodes, x)} :
       \A ns2 \in content_tree__repair(nodes, c, RootId) :
          /\ ValidTree(ns2, c)
          /\ DOMAIN ns2 = DOMAIN nodes
          /\ \A n \in CasebookContents(nodes, c) :
                LET anc == StoredAncestors(nodes, n)
                IN IF anc = {} THEN Len(ns2[n].ordinals) = 1
                   ELSE \E a \in anc :
                           /\ \A b \in anc : Len(nodes[b].ordinals) <= Len(nodes[a].ordinals)
                           /\ ButLast(ns2[n].ordinals) = ns2[a].ordinals
          /\ \A n, m \in CasebookContents(nodes, c) :
                LexLess(nodes[n].ordinals, nodes[m].ordinals)
                   => LexLess(ns2[n].ordinals, ns2[m].ordinals)

\* the rows stored at [1], [1, 2, 1] and [2, 2] (a gap, no [1, 2], no [2]) were
\* repaired: they are at [1], [1, 1] and [2]
C36_Witness ==
    /\ result.op = "repair"
    /\ result.before = (1 :> <<1>>) @@ (2 :> <<1, 2, 1>>) @@ (3 :> <<2, 2>>)
    /\ nodes[1].ordinals = <<1>>
    /\ nodes[2].ordinals = <<1, 1>>
    /\ nodes[3].ordinals = <<2>>

(***************************************************************************)
(* What content_tree__move_to leaves alone                                 *)
(***************************************************************************)
\* the rows below the lowest common ancestor of node s and the parent of
\* new_ordinals: the rows of the tree move_to loads, its root left out
UnderCommonParent(ns, s, new_ordinals) ==
    LET common_prefix == commonprefix(ns[s].ordinals, ButLast(new_ordinals))
    IN {n \in CasebookContents(ns, ns[s].casebook) :
           /\ Len(ns[n].ordinals) > Len(common_prefix)
           /\ Take(ns[n].ordinals, Len(common_prefix)) = common_prefix}

\* C37: a content_tree__move_to that returns changes the stored ordinals only
\* of rows below the lowest common ancestor of the node's old location and its
\* new parent, creates and deletes no row, leaves the moved node's descendants
\* below it in the same relative order, and writes nothing when the target is
\* the node's current path.
C37_MoveChangesOnlyCommonSubtree ==
    \A c \in DOMAIN casebooks : WellFormed(nodes, c) =>
       \A s \in CasebookContents(nodes, c) :
          \A new_ordinals \in Paths :
             \A o \in content_tree__move_to(nodes, s, new_ordinals) :
                o.err = "" =>
                   /\ DOMAIN o.ns = DOMAIN nodes
                   /\ \A n \in DOMAIN nodes :
                         /\ o.ns[n].ordinals # nodes[n].ordinals
                               => n \in UnderCommonParent(nodes, s, new_ordinals)
                         /\ o.ns[n].casebook = nodes[n].casebook
                   /\ \A d \in NodeContents(nodes, s) : d \in NodeContents(o.ns, s)
                   /\ \A d1, d2 \in NodeContents(nodes, s) :
                         LexLess(nodes[d1].ordinals, nodes[d2].ordinals)
                            => LexLess(o.ns[d1].ordinals, o.ns[d2].ordinals)
                   /\ new_ordinals = nodes[s].ordinals => o.ns = nodes

\* C37 witness: a move has produced a well-formed tree in which a section with
\* a descendant can move under another parent and the descendant follows it,
\* and in which a move below a section changes a sibling's path and leaves a
\* node outside that section where it was; the same node moved to its own path
\* leaves every row as it was.
C37_Witness ==
    /\ MoveReturned
    /\ WellFormed(nodes, 1)
    /\ \E s, d \in CasebookContents(nodes, 1) : \E new_ordinals \in Paths :
          /\ d \in NodeContents(nodes, s)
          /\ Len(new_ordinals) > 1
          /\ ButLast(new_ordinals) # ButLast(nodes[s].ordinals)
          /\ \E o \in content_tree__move_to(nodes, s, new_ordinals) :
                /\ o.err = ""
                /\ o.ns[d].ordinals # nodes[d].ordinals
                /\ d \in NodeContents(o.ns, s)
    /\ \E s, y, x \in CasebookContents(nodes, 1) : \E new_ordinals \in Paths :
          /\ x \notin UnderCommonParent(nodes, s, new_ordinals)
          /\ y # s
          /\ \E o \in content_tree__move_to(nodes, s, new_ordinals) :
                /\ o.err = ""
                /\ o.ns[s].ordinals # nodes[s].ordinals
                /\ o.ns[y].ordinals # nodes[y].ordinals
                /\ o.ns[x].ordinals = nodes[x].ordinals
          /\ \A o \in content_tree__move_to(nodes, s, nodes[s].ordinals) : o.ns = nodes

\* C38: after content_tree__repair of a casebook, no two of its nodes that show
\* ordinals have the same display_ordinals, and so none the same
\* ordinal_string.
C38_DisplayOrdinalsUniqueAfterRepair ==
    (result.op = "repair" /\ result.err = "") =>
        \A c \in DOMAIN casebooks :
           \A n, m \in CasebookContents(nodes, c) :
              (n # m /\ nodes[n].does_display_ordinals /\ nodes[m].does_display_ordinals)
                 => /\ nodes[n].display_ordinals # nodes[m].display_ordinals
                    /\ ordinal_string(nodes[n]) # ordinal_string(nodes[m])

(***************************************************************************)
(* Saving the instance of an annotated body                                *)
(* calls[p] holds the TextBlock or LegalDocument instance request p has    *)
(* loaded: the node whose body it is, its content attribute and            *)
(* original_state["content"].  AnnotatedModel.save has no                  *)
(* transaction.atomic: update_annotations has stored the offsets when      *)
(* super().save() runs, and a save that raises there leaves them stored.   *)
(***************************************************************************)
\* has_changed("content") of a stored instance whose content is loaded
has_changed(inst) == inst.original_state # inst.content

\* the rows after the annotations annots are stored for the body of s and, when
\* stores_content, its content too
BodyStored(ns, s, annots, content, stores_content) ==
    [n \in DOMAIN ns |->
        IF Body(ns[n]) = Body(ns[s])
        THEN [ns[n] EXCEPT
                !.content = IF stores_content THEN content ELSE @,
                !.annotations = [i \in DOMAIN @ |-> IF <<n, i>> \in DOMAIN annots
                                                    THEN annots[<<n, i>>] ELSE @[i]]]
        ELSE ns[n]]

\* the outcomes of inst.save() for a stored instance: the exception raised (""
\* when it returned), the rows as stored afterwards, the annotations written
\* and original_state["content"] afterwards
AnnotatedModel_save(ns, inst) ==
    LET s    == inst.self
        qs   == related_annotations(ns, s)
        recs == IF has_changed(inst)
                THEN update_annotations(qs, inst.original_state, inst.content)
                ELSE {[annots |-> qs, written |-> {}]}
    IN UNION {{[err |-> "", ns |-> BodyStored(ns, s, o.annots, inst.content, TRUE),
                written |-> o.written, original_state |-> inst.content],
               [err |-> "DatabaseError",
                ns |-> BodyStored(ns, s, o.annots, inst.content, FALSE),
                written |-> o.written, original_state |-> inst.original_state]} :
                  o \in recs}

\* request p loads the body of node s: TextBlock.objects.get(pk=...)
GetBody(p, s) ==
    /\ s \in Annotated
    /\ is_resource(nodes[s])
    /\ calls' = [calls EXCEPT ![p] =
                    [op |-> "body", self |-> s, content |-> nodes[s].content,
                     original_state |-> nodes[s].content]]
    /\ result' = [op |-> "get_body", err |-> ""]
    /\ UNCHANGED <<nodes, casebooks, edit_log, seq, edits>>

\* request p assigns content to its instance and calls save()
SaveInstance(p, content) ==
    /\ calls[p].op = "body"
    /\ edits < MaxSaves
    /\ LET inst == [calls[p] EXCEPT !.content = content]
       IN \E o \in AnnotatedModel_save(nodes, inst) :
             /\ nodes' = o.ns
             /\ calls' = [calls EXCEPT ![p] =
                             [inst EXCEPT !.original_state = o.original_state]]
             /\ result' = [op |-> "save_body", err |-> o.err, self |-> inst.self,
                           new |-> FALSE, before |-> inst.original_state,
                           content |-> content,
                           qs |-> related_annotations(nodes, inst.self),
                           written |-> o.written]
    /\ edits' = edits + 1
    /\ UNCHANGED <<casebooks, edit_log, seq>>

\* request p creates a body and saves it: self.pk is None, so save goes
\* straight to super().save(), which inserts the row
SaveNewBody(p, content) ==
    /\ calls[p] = Idle
    /\ edits < MaxSaves
    /\ seq' = [seq EXCEPT !.textblock = @ + 1]
    /\ edits' = edits + 1
    /\ result' = [op |-> "save_body", err |-> "", self |-> NoneId, new |-> TRUE,
                  before |-> <<>>, content |-> content, qs |-> <<>>, written |-> {}]
    /\ UNCHANGED <<nodes, casebooks, edit_log, calls>>

NextSave ==
    \/ \E p \in Procs : \E s \in DOMAIN nodes : GetBody(p, s)
    \/ \E p \in Procs : \E content \in Contents(MaxText) : SaveInstance(p, content)
    \/ \E p \in Procs : \E content \in Contents(MaxText) : SaveNewBody(p, content)

SpecSave == InitAnnot /\ [][NextSave]_vars

\* C39: a save of a stored annotated body whose content changed reconciles the
\* valid annotations once, from the content as last saved or loaded to the new
\* content, and stores shifted offsets only together with the new content; a
\* save with no change of content and the save of a new body write no
\* annotation.
C39_OffsetsStoredWithContent ==
    result.op = "save_body" =>
       /\ result.written # {} =>
             /\ result.err = ""
             /\ nodes[result.self].content = result.content
       /\ (result.new \/ result.content = result.before) => result.written = {}
       /\ (~result.new /\ result.content # result.before /\ result.err = "") =>
             \E o \in update_annotations(result.qs, result.before, result.content) :
                /\ o.written = result.written
                /\ related_annotations(nodes, result.self)
                      = [k \in valid(o.annots) |-> o.annots[k]]

====
